---- MODULE Spec2Model ----
(***************************************************************************)
(* Model of the auto-batching evaluation engine of                         *)
(* Source/CNTKv2LibraryDll/AutoBatch.cpp (class Variable::Memoize).        *)
(*                                                                         *)
(* The graph is a sequence of Variables (edges) and a sequence of          *)
(* Functions (nodes); the engine appends the Functions and Variables it    *)
(* synthesises (Splice, Slice, batched ops) to the same sequences.         *)
(* Tensors are symbolic terms; a tensor with a trailing batch axis is the  *)
(* term "batch" over its per-item terms.                                   *)
(***************************************************************************)
EXTENDS Integers, Sequences, FiniteSets, TLC

VARIABLES
    vars,     \* Variable fields (VariableFields), indexed by variable id
    funcs,    \* Function fields, indexed by function id
    sched,    \* Memoize::m_schedule (ReadyOps)
    pc,       \* position of the public call in progress
    call,     \* the public call in progress (or the last one)
    result,   \* what the last public call returned
    err,      \* the error that aborted the pass ("" when none)
    klog,     \* history: kernel invocations of the current call
    blog,     \* history: batches executed in the current call
    nobj,     \* next fresh NDArrayView object id
    nops,     \* number of client operations performed so far
    client,   \* the variables the client holds (leaves, outputs of its functions)
    heap,     \* contents of the gradient tensors, indexed by buffer id
    grads,    \* the 'gradients' map of the Backward call in progress
    todo,     \* keys of 'gradients' the aggregation loop has not reached yet
    plog,     \* history: BackpropTo and SetValue(0) invocations of the current call
    ret,      \* history: the tensor each completed Forward(v) returned last
    bret,     \* history: root and gradients of the Backward call that returned last
    m_currentArena,      \* static of AllocateTensorInArena: the current block (0: null)
    m_currentArenaUsed,  \* static of AllocateTensorInArena: elements used of the block
    blocks,   \* the arena blocks allocated so far (data type and device of each)
    alloc,    \* per engine instance: position and locals of its AllocateTensorInArena call
    alog,     \* history: what the calls of AllocateTensorInArena returned
    pastEnd   \* whether a shape read past the end of m_inputs compares equal

vars_ == <<vars, funcs, sched, pc, call, result, err, klog, blog, nobj, nops,
           client, heap, grads, todo, plog, ret, bret,
           m_currentArena, m_currentArenaUsed, blocks, alloc, alog, pastEnd>>

\* the state of the arena allocator
arenaVars_ == <<m_currentArena, m_currentArenaUsed, blocks, alloc, alog>>

-----------------------------------------------------------------------------
(* Bounds of the model *)

\* number of client operations (AddFunction, Forward, Backward) on top of the
\* initial graph
MaxOps == 2

\* number of engine instances (Memoize objects) that allocate
NumEngines == 2

\* number of calls of AllocateTensorInArena
MaxAllocs == 3

\* the numbers of elements requested: two that fill a block together, and one
\* above the block size
RequestSizes == {24000000, 40000000, 64000001}

\* number of functions handed to the scheduler on its own
MaxScheduled == 3

\* largest number of operands of a Splice
MaxSpliceInputs == 3

(* Program constants *)

\* ARENASIZE: "we allocate in this chunk size"
ARENASIZE == 64000000

\* SIZE_MAX, the lazy-index sentinel "don't slice, actually"
SIZE_MAX == 1000000

\* #define BarrierOp NoOp
BarrierOp == "NoOp"

-----------------------------------------------------------------------------
(* Shapes (NDShape): sequences of dimensions *)

Rank(shape) == Len(shape)

RECURSIVE PadTo(_, _)
PadTo(shape, rank) ==
    IF Len(shape) >= rank THEN shape ELSE PadTo(Append(shape, 1), rank)

\* NDShape::AppendAxis(axis, dim): pad with 1 up to 'axis', then append 'dim'
AppendAxis(shape, axis, dim) == Append(PadTo(shape, axis), dim)

\* the shape with its last dimension replaced
WithLastDim(shape, dim) == [shape EXCEPT ![Len(shape)] = dim]

-----------------------------------------------------------------------------
(* Tensors (NDArrayView) as symbolic terms *)

NoTerm == [op |-> "none", attrs |-> <<>>, args |-> <<>>, id |-> 0]

LeafTerm(v) == [op |-> "leaf", attrs |-> <<>>, args |-> <<>>, id |-> v]

BatchTerm(items) == [op |-> "batch", attrs |-> <<>>, args |-> items, id |-> 0]

BadTerm == [op |-> "bad", attrs |-> <<>>, args |-> <<>>, id |-> 0]

IsBatch(t) == t.op = "batch"

\* an empty shared_ptr<NDArrayView>
NoTensor == [obj |-> 0, t |-> NoTerm, sparse |-> FALSE]

Tensor(obj, t) == [obj |-> obj, t |-> t, sparse |-> FALSE]

\* attribute lookup in a Dictionary (a sequence of <<key, value>> pairs)
Attr(attrs, key) ==
    LET hits == {k \in 1..Len(attrs) : attrs[k][1] = key}
    IN  IF hits = {} THEN -1 ELSE attrs[CHOOSE k \in hits : TRUE][2]

\* NDArrayView::IndexLastAxis(index) on the term level
IndexTerm(t, index) ==
    IF IsBatch(t)
    THEN IF index < Len(t.args) THEN t.args[index + 1] ELSE BadTerm
    ELSE [op |-> "index", attrs |-> <<<<"index", index>>>>, args |-> <<t>>, id |-> 0]

\* the operand of item j of a batched kernel: batched operands are indexed,
\* un-batched operands are broadcast
ItemArgs(args, j) ==
    [i \in 1..Len(args) |-> IF IsBatch(args[i]) THEN IndexTerm(args[i], j) ELSE args[i]]

BatchLens(args) == {Len(args[i].args) : i \in {k \in 1..Len(args) : IsBatch(args[k])}}

\* PrimitiveFunction::ComputeKnowableValue: the kernel, a pure function of its
\* operands that maps over the trailing batch axis
ComputeKnowableValue(op, inTerms, inShapes, attrs, outputShape) ==
    IF op = "Splice" /\ Attr(attrs, "axis") >= Rank(inShapes[1])
    THEN \* gather along a new trailing axis
         BatchTerm(inTerms)
    ELSE IF op = "Slice" /\ IsBatch(inTerms[1])
              /\ Attr(attrs, "axis") = Rank(inShapes[1]) - 1
    THEN \* sub-range of the batch axis
         LET b == Attr(attrs, "beginIndex")
             e == Attr(attrs, "endIndex")
         IN  IF b >= 0 /\ b <= e /\ e <= Len(inTerms[1].args)
             THEN BatchTerm(SubSeq(inTerms[1].args, b + 1, e))
             ELSE BadTerm
    ELSE IF BatchLens(inTerms) = {}
    THEN [op |-> op, attrs |-> attrs, args |-> inTerms, id |-> 0]
    ELSE IF Cardinality(BatchLens(inTerms)) = 1
    THEN LET n == CHOOSE n \in BatchLens(inTerms) : TRUE
         IN  BatchTerm([j \in 1..n |->
                 [op |-> op, attrs |-> attrs, args |-> ItemArgs(inTerms, j - 1), id |-> 0]])
    ELSE BadTerm

-----------------------------------------------------------------------------
(* Variables and Functions *)

NoLazy == [f |-> 0, idx |-> 0]

NoGradient == [buf |-> 0, idx |-> 0]

NewVariable(kind, shape, needsGradient, owner) ==
    [kind |-> kind, shape |-> shape, needsGradient |-> needsGradient,
     value |-> NoTensor, gradient |-> NoGradient, lazyIndex |-> NoLazy,
     consumers |-> <<>>, visited |-> FALSE, owner |-> owner]

NewFunction(op, inputs, output, attributes) ==
    [op |-> op, inputs |-> inputs, output |-> output, attributes |-> attributes,
     pendingInputs |-> -1]

HasValue(fields) == fields.value.obj # 0

HasLazyIndex(fields) == fields.lazyIndex.f # 0

\* the shape inference of the graph-construction API for the ops of the model
OutputShape(op, inShapes, attributes) ==
    IF op = "Times" THEN SubSeq(inShapes[1], 1, Len(inShapes[1]) - Len(inShapes[2]))
    ELSE IF op = "Splice"
    THEN [inShapes[1] EXCEPT ![1] = inShapes[1][1] + inShapes[2][1]]
    ELSE inShapes[1]

Arity(op) == IF op \in {"Times", "Plus", "Splice"} THEN 2 ELSE 1

\* the type rules of the graph-construction API for the ops of the model
WellTyped(op, inShapes) ==
    /\ Len(inShapes) = Arity(op)
    /\ op = "Times" =>
          /\ Rank(inShapes[1]) = Rank(inShapes[2]) + 1
          /\ SubSeq(inShapes[1], 2, Len(inShapes[1])) = inShapes[2]
    /\ op = "Plus" => inShapes[1] = inShapes[2]
    /\ op = "Splice" => Rank(inShapes[1]) = 1 /\ inShapes[1] = inShapes[2]

\* Function::RawPrimitiveFunction and the user-level function constructors:
\* a new Function with one new Output variable, m_pendingInputs = -1
RawPrimitiveFunction(g, op, inputs, outputShape, attributes) ==
    LET f == Len(g.f) + 1
        out == Len(g.v) + 1
        needsGradient == op # "StopGradient"
                         /\ \E i \in 1..Len(inputs) : g.v[inputs[i]].needsGradient
    IN  [g EXCEPT !.f = Append(@, NewFunction(op, inputs, out, attributes)),
                  !.v = Append(@, NewVariable("Output", outputShape, needsGradient, f))]

UserFunction(g, op, inputs, attributes) ==
    RawPrimitiveFunction(g, op, inputs,
        OutputShape(op, [i \in 1..Len(inputs) |-> g.v[inputs[i]].shape], attributes),
        attributes)

UserAttributes(op) == IF op = "Splice" THEN <<<<"axis", 0>>>> ELSE <<>>

-----------------------------------------------------------------------------
(* The graphs the client hands to the engine *)

\* leaves: 1, 2 weight matrices; 3 parameter vector; 4 constant vector;
\* 5 parameter vector of another shape; 6 unbound input; 7 input bound to a
\* sparse tensor; 8 unbound placeholder; 9 constant weight tensor that maps a
\* matrix to a vector
Leaves ==
    << NewVariable("Parameter", <<2, 2>>, TRUE, 0),
       NewVariable("Parameter", <<2, 2>>, TRUE, 0),
       NewVariable("Parameter", <<2>>, TRUE, 0),
       NewVariable("Constant", <<2>>, FALSE, 0),
       NewVariable("Parameter", <<3>>, TRUE, 0),
       NewVariable("Input", <<2>>, FALSE, 0),
       [NewVariable("Input", <<2>>, FALSE, 0) EXCEPT
           !.value = [obj |-> 1, t |-> LeafTerm(7), sparse |-> TRUE]],
       NewVariable("Placeholder", <<2>>, FALSE, 0),
       NewVariable("Constant", <<2, 2, 2>>, FALSE, 0) >>

EmptyGraph == [v |-> Leaves, f |-> <<>>]

RECURSIVE BuildGraph(_, _, _)
BuildGraph(g, defs, k) ==
    IF k > Len(defs) THEN g
    ELSE BuildGraph(UserFunction(g, defs[k][1], defs[k][2], UserAttributes(defs[k][1])),
                    defs, k + 1)

\* output variable of the k-th user function of a graph built on Leaves
O(k) == Len(Leaves) + k

Catalogue ==
    { <<>>,
      \* two fusable Tanh, joined; the second one needs no gradient
      << <<"Tanh", <<3>>>>, <<"Tanh", <<4>>>>, <<"Plus", <<O(1), O(2)>>>> >>,
      \* shared-weight Times, and a Times with the other weight
      << <<"Times", <<2, 3>>>>, <<"Times", <<1, 3>>>>, <<"Times", <<1, 4>>>>,
         <<"Plus", <<O(2), O(3)>>>>, <<"Plus", <<O(1), O(4)>>>> >>,
      \* a fused layer of three feeding a fused layer of two (a sub-range of
      \* consecutive slices)
      << <<"Tanh", <<3>>>>, <<"Tanh", <<4>>>>, <<"Tanh", <<7>>>>, <<"Tanh", <<O(2)>>>>,
         <<"Tanh", <<O(3)>>>>, <<"Plus", <<O(4), O(5)>>>>, <<"Plus", <<O(1), O(6)>>>> >>,
      \* a fused layer feeding a second fused layer (the full range of
      \* consecutive slices) with a shared operand
      << <<"Tanh", <<3>>>>, <<"Tanh", <<4>>>>, <<"Plus", <<O(1), 3>>>>,
         <<"Plus", <<O(2), 3>>>>, <<"Plus", <<O(3), O(4)>>>> >>,
      \* view op, regular op and barrier op ready together
      << <<"Pass", <<3>>>>, <<"Tanh", <<3>>>>, <<"NoOp", <<4>>>>,
         <<"Plus", <<O(1), O(2)>>>>, <<"Plus", <<O(4), O(3)>>>> >>,
      \* the same op on the same operand twice; two Splice; a StopGradient
      << <<"Tanh", <<3>>>>, <<"Tanh", <<3>>>>, <<"Splice", <<O(1), O(2)>>>>,
         <<"Splice", <<O(2), O(1)>>>>, <<"StopGradient", <<O(3)>>>>,
         <<"Plus", <<O(4), O(5)>>>> >>,
      \* shared-weight Times, the first on a sparse operand
      << <<"Times", <<1, 7>>>>, <<"Times", <<1, 3>>>>, <<"Plus", <<O(1), O(2)>>>> >>,
      \* shared-weight Times whose output has a lower rank than its operand
      << <<"Times", <<9, 1>>>>, <<"Times", <<9, 2>>>>, <<"Plus", <<O(1), O(2)>>>> >> }

UserOps == {"Times", "Tanh", "Plus", "Pass", "NoOp", "Splice", "StopGradient"}

-----------------------------------------------------------------------------
(* ===== forward ===== *)

\* the engine state threaded through the code of one step
Engine == [v |-> vars, f |-> funcs, s |-> sched, o |-> nobj, k |-> klog, e |-> err,
           g |-> heap, p |-> plog]

\* LogicError / fail_if: the first error aborts the pass
Fail(st, error) == IF st.e = "" THEN [st EXCEPT !.e = error] ELSE st

IsViewOp(op) ==
    \/ op = "StopGradient"
    \/ op = "Pass"
    \/ op = "NoOp"
    \/ op = BarrierOp
    \/ op = "Reshape"
    \/ op = "Slice"

\* AreBatchable without the special case of Times: the weights are compared by
\* shape like every other input
AreBatchable_ByShape(F, V, a, b) ==
    LET op == F[a].op
    IN  /\ op = F[b].op
        /\ \A i \in 1..Len(F[a].inputs) :
              IF i > Len(F[b].inputs) THEN pastEnd
              ELSE V[F[a].inputs[i]].shape = V[F[b].inputs[i]].shape
        /\ F[a].attributes = F[b].attributes

\* ReadyOps::AreBatchable, built without assertions (the assert of line 187
\* is compiled out; with assertions the process aborts there when the numbers
\* of inputs differ). The loop runs over the inputs of a: when b has fewer,
\* b->m_inputs[i] is read past the end, and the comparison of that shape is
\* as pastEnd says. It is not reached for view ops (line 181: Schedule sends
\* them to the other queues).
AreBatchable(F, V, a, b) ==
    LET op == F[a].op
    IN  /\ op = F[b].op
        /\ \A i \in 1..Len(F[a].inputs) :
              IF i > Len(F[b].inputs) THEN pastEnd
              ELSE IF op = "Times" /\ i = 1
              THEN F[a].inputs[i] = F[b].inputs[i]
              ELSE V[F[a].inputs[i]].shape = V[F[b].inputs[i]].shape
        /\ F[a].attributes = F[b].attributes

EmptySchedule == [viewOps |-> <<>>, regularOps |-> <<>>, barrierOps |-> <<>>]

\* the first bucket of m_regularOps whose front is batchable with f (0: none)
RECURSIVE FirstBatchable(_, _, _, _, _)
FirstBatchable(F, V, regularOps, f, k) ==
    IF k > Len(regularOps) THEN 0
    ELSE IF AreBatchable(F, V, f, regularOps[k][1]) THEN k
    ELSE FirstBatchable(F, V, regularOps, f, k + 1)

\* Schedule that opens a bucket of its own for every regular op
Schedule_OwnBucket(F, V, s, f) ==
    LET op == F[f].op
    IN  IF op = BarrierOp THEN [s EXCEPT !.barrierOps = Append(@, f)]
        ELSE IF IsViewOp(op) THEN [s EXCEPT !.viewOps = Append(@, f)]
        ELSE [s EXCEPT !.regularOps = Append(@, <<f>>)]

\* Schedule with the view test ahead of the barrier test
Schedule_ViewFirst(F, V, s, f) ==
    LET op == F[f].op
    IN  IF IsViewOp(op) THEN [s EXCEPT !.viewOps = Append(@, f)]
        ELSE IF op = BarrierOp THEN [s EXCEPT !.barrierOps = Append(@, f)]
        ELSE LET k == FirstBatchable(F, V, s.regularOps, f, 1)
             IN  IF k # 0 THEN [s EXCEPT !.regularOps[k] = Append(@, f)]
                 ELSE [s EXCEPT !.regularOps = Append(@, <<f>>)]

\* ReadyOps::Schedule
Schedule(F, V, s, f) ==
    LET op == F[f].op
    IN  IF op = BarrierOp THEN [s EXCEPT !.barrierOps = Append(@, f)]
        ELSE IF IsViewOp(op) THEN [s EXCEPT !.viewOps = Append(@, f)]
        ELSE LET k == FirstBatchable(F, V, s.regularOps, f, 1)
             IN  IF k # 0 THEN [s EXCEPT !.regularOps[k] = Append(@, f)]
                 ELSE [s EXCEPT !.regularOps = Append(@, <<f>>)]

\* NotifyInputAvailable that schedules the function at the first input that
\* becomes available
NotifyInputAvailable_Eager(st, f) ==
    IF st.e # "" THEN st
    ELSE IF st.f[f].pendingInputs <= 0 THEN Fail(st, "InvariantViolation")
    ELSE [st EXCEPT !.f[f].pendingInputs = 0,
                    !.s = Schedule(st.f, st.v, st.s, f)]

\* NotifyInputAvailable without the test of line 244
NotifyInputAvailable_NoGuard(st, f) ==
    IF st.e # "" THEN st
    ELSE LET st1 == [st EXCEPT !.f[f].pendingInputs = @ - 1]
         IN  IF st1.f[f].pendingInputs = 0
             THEN [st1 EXCEPT !.s = Schedule(st1.f, st1.v, st1.s, f)]
             ELSE st1

\* ReadyOps::NotifyInputAvailable
NotifyInputAvailable(st, f) ==
    IF st.e # "" THEN st
    ELSE IF st.f[f].pendingInputs <= 0 THEN Fail(st, "InvariantViolation")
    ELSE LET st1 == [st EXCEPT !.f[f].pendingInputs = @ - 1]
         IN  IF st1.f[f].pendingInputs = 0
             THEN [st1 EXCEPT !.s = Schedule(st1.f, st1.v, st1.s, f)]
             ELSE st1

\* ReadyOps::empty
SchedEmpty(s) == s.viewOps = <<>> /\ s.regularOps = <<>> /\ s.barrierOps = <<>>

\* the scan of pop_best for the largest bucket: the first of maximal size
RECURSIVE BestBucket(_, _, _)
BestBucket(regularOps, best, k) ==
    IF k > Len(regularOps) THEN best
    ELSE IF Len(regularOps[k]) > Len(regularOps[best])
    THEN BestBucket(regularOps, k, k + 1)
    ELSE BestBucket(regularOps, best, k + 1)

RemoveAt(seq, k) == SubSeq(seq, 1, k - 1) \o SubSeq(seq, k + 1, Len(seq))

\* pop_best that serves the regular buckets before the view queue
pop_best_RegularFirst(s) ==
    IF s.regularOps # <<>>
    THEN LET best == BestBucket(s.regularOps, 1, 2)
         IN  [ops |-> s.regularOps[best], queue |-> "regular",
              s |-> [s EXCEPT !.regularOps = RemoveAt(@, best)]]
    ELSE IF s.viewOps # <<>>
    THEN [ops |-> s.viewOps, queue |-> "view", s |-> [s EXCEPT !.viewOps = <<>>]]
    ELSE [ops |-> s.barrierOps, queue |-> "barrier", s |-> [s EXCEPT !.barrierOps = <<>>]]

\* pop_best whose move of the view queue leaves the queue as it was (a move
\* constructor without other.clear())
pop_best_KeepViews(s) ==
    IF s.viewOps # <<>>
    THEN [ops |-> s.viewOps, queue |-> "view", s |-> s]
    ELSE IF s.regularOps # <<>>
    THEN LET best == BestBucket(s.regularOps, 1, 2)
         IN  [ops |-> s.regularOps[best], queue |-> "regular",
              s |-> [s EXCEPT !.regularOps = RemoveAt(@, best)]]
    ELSE [ops |-> s.barrierOps, queue |-> "barrier", s |-> [s EXCEPT !.barrierOps = <<>>]]

\* ReadyOps::pop_best
pop_best(s) ==
    IF s.viewOps # <<>>
    THEN [ops |-> s.viewOps, queue |-> "view", s |-> [s EXCEPT !.viewOps = <<>>]]
    ELSE IF s.regularOps # <<>>
    THEN LET best == BestBucket(s.regularOps, 1, 2)
         IN  [ops |-> s.regularOps[best], queue |-> "regular",
              s |-> [s EXCEPT !.regularOps = RemoveAt(@, best)]]
    ELSE [ops |-> s.barrierOps, queue |-> "barrier", s |-> [s EXCEPT !.barrierOps = <<>>]]

\* Variable::Value() of a Parameter or Constant: initialises m_value
InitValue(st, var) ==
    [st EXCEPT !.v[var].value = Tensor(st.o, LeafTerm(var)), !.o = @ + 1]

RECURSIVE TraverseFunctionTreeForward(_, _), TraverseInputs(_, _, _, _)

\* the loop over the inputs of f that counts every pending input but records
\* f as a consumer of its first input only
RECURSIVE TraverseInputs_FirstEntry(_, _, _, _)
TraverseInputs_FirstEntry(st, f, i, pendingInputs) ==
    IF st.e # "" THEN st
    ELSE IF i > Len(st.f[f].inputs)
    THEN LET st1 == [st EXCEPT !.f[f].pendingInputs = pendingInputs]
         IN  IF pendingInputs = 0
             THEN [st1 EXCEPT !.s = Schedule(st1.f, st1.v, st1.s, f)]
             ELSE st1
    ELSE LET input == st.f[f].inputs[i]
         IN  IF HasValue(st.v[input])
             THEN TraverseInputs_FirstEntry(st, f, i + 1, pendingInputs)
             ELSE LET st1 == TraverseFunctionTreeForward(st, input)
                  IN  IF st1.e # "" THEN st1
                      ELSE IF ~HasValue(st1.v[input])
                      THEN TraverseInputs_FirstEntry(
                               IF i = 1
                               THEN [st1 EXCEPT !.v[input].consumers = Append(@, <<f, i - 1>>)]
                               ELSE st1,
                               f, i + 1, pendingInputs + 1)
                      ELSE TraverseInputs_FirstEntry(st1, f, i + 1, pendingInputs)

\* TraverseFunctionTreeForward without the check for Input and Placeholder: an
\* unbound one is given a value like a Parameter
TraverseFunctionTreeForward_NoInputCheck(st, var) ==
    LET fields == st.v[var]
    IN  IF st.e # "" THEN st
        ELSE IF HasValue(fields) THEN Fail(st, "InvariantViolation")
        ELSE IF fields.owner = 0 THEN InitValue(st, var)
        ELSE IF st.f[fields.owner].pendingInputs # -1 THEN st
        ELSE TraverseInputs(st, fields.owner, 1, 0)

\* Variable::Memoize::TraverseFunctionTreeForward
TraverseFunctionTreeForward(st, var) ==
    LET fields == st.v[var]
    IN  IF st.e # "" THEN st
        ELSE IF HasValue(fields) THEN Fail(st, "InvariantViolation")
        ELSE IF fields.kind \in {"Input", "Placeholder"}
        THEN Fail(st, "DependsOnUnboundInput")
        ELSE IF fields.kind \in {"Parameter", "Constant"} THEN InitValue(st, var)
        ELSE IF st.f[fields.owner].pendingInputs # -1 THEN st
        ELSE TraverseInputs(st, fields.owner, 1, 0)

\* the loop over the inputs of f in TraverseFunctionTreeForward, from input i on
TraverseInputs(st, f, i, pendingInputs) ==
    IF st.e # "" THEN st
    ELSE IF i > Len(st.f[f].inputs)
    THEN LET st1 == [st EXCEPT !.f[f].pendingInputs = pendingInputs]
         IN  IF pendingInputs = 0
             THEN [st1 EXCEPT !.s = Schedule(st1.f, st1.v, st1.s, f)]
             ELSE st1
    ELSE LET input == st.f[f].inputs[i]
         IN  IF HasValue(st.v[input]) THEN TraverseInputs(st, f, i + 1, pendingInputs)
             ELSE LET st1 == TraverseFunctionTreeForward(st, input)
                  IN  IF st1.e # "" THEN st1
                      ELSE IF ~HasValue(st1.v[input])
                      THEN TraverseInputs(
                               [st1 EXCEPT !.v[input].consumers = Append(@, <<f, i - 1>>)],
                               f, i + 1, pendingInputs + 1)
                      ELSE TraverseInputs(st1, f, i + 1, pendingInputs)

RECURSIVE LazilyIndexedValue(_, _)
\* Variable::Memoize::LazilyIndexedValue: the value is left in st.v[v].value
LazilyIndexedValue(st, v) ==
    LET fields == st.v[v]
    IN  IF st.e # "" \/ HasValue(fields) THEN st
        ELSE IF ~HasLazyIndex(fields) THEN Fail(st, "InvariantViolation")
        ELSE LET from == st.f[fields.lazyIndex.f].output
                 st1 == LazilyIndexedValue(st, from)
                 index == fields.lazyIndex.idx
             IN  IF st1.e # "" THEN st1
                 ELSE IF index = SIZE_MAX
                 THEN [st1 EXCEPT !.v[v].value = st1.v[from].value]
                 ELSE [st1 EXCEPT
                          !.v[v].value = Tensor(st1.o, IndexTerm(st1.v[from].value.t, index)),
                          !.o = @ + 1]

\* the loop of MemoizeKnowableValueInArena that fetches the inputs' values
RECURSIVE ResolveInputs(_, _, _)
ResolveInputs(st, inputs, i) ==
    IF st.e # "" \/ i > Len(inputs) THEN st
    ELSE ResolveInputs(LazilyIndexedValue(st, inputs[i]), inputs, i + 1)

\* Variable::Memoize::MemoizeKnowableValueInArena; 'role' and 'pos' only label
\* the kernel invocation in the history
MemoizeKnowableValueInArena(st, f, isFree, role, pos) ==
    LET inputs == st.f[f].inputs
        st1 == ResolveInputs(st, inputs, 1)
        output == st.f[f].output
        t == ComputeKnowableValue(st.f[f].op,
                 [i \in 1..Len(inputs) |-> st1.v[inputs[i]].value.t],
                 [i \in 1..Len(inputs) |-> st1.v[inputs[i]].shape],
                 st.f[f].attributes, st.v[output].shape)
    IN  IF st1.e # "" THEN st1
        ELSE [st1 EXCEPT !.v[output].value = Tensor(st1.o, t),
                         !.o = @ + 1,
                         !.k = Append(@, [f |-> f, op |-> st.f[f].op, free |-> isFree,
                                          role |-> role, pos |-> pos,
                                          batch |-> Len(blog) + 1])]

\* ResetPendingToIdle that checks the counter and leaves it at 0
ResetPendingToIdle_Stale(st, f) ==
    IF st.e # "" THEN st
    ELSE IF st.f[f].pendingInputs # 0 THEN Fail(st, "InvariantViolation")
    ELSE st

\* Variable::Memoize::ResetPendingToIdle
ResetPendingToIdle(st, f) ==
    IF st.e # "" THEN st
    ELSE IF st.f[f].pendingInputs # 0 THEN Fail(st, "InvariantViolation")
    ELSE [st EXCEPT !.f[f].pendingInputs = -1]


\* the operands at input position i of all ops of the batch (spliceInputs)
GatherInputs(F, ops, i) == [j \in 1..Len(ops) |-> F[ops[j]].inputs[i]]

\* the allSame test that never finds the operands the same
AllSame_Never(V, spliceInputs) == FALSE

\* the 'allSame' flag computed by the loop over the batched ops
AllSame(V, spliceInputs) ==
    LET pfields0 == spliceInputs[1]
    IN  \A j \in 1..Len(spliceInputs) :
            \/ spliceInputs[j] = pfields0
            \/ /\ HasLazyIndex(V[pfields0])
               /\ V[spliceInputs[j]].lazyIndex = V[pfields0].lazyIndex

\* a loop over the batched ops that never finds consecutive slices
AllConsecutiveSlices_Never(V, spliceInputs) == FALSE

\* the 'allConsecutiveSlices' flag computed by the loop over the batched ops
AllConsecutiveSlices(V, spliceInputs) ==
    LET lazyIndex0 == V[spliceInputs[1]].lazyIndex
    IN  /\ lazyIndex0.f # 0
        /\ lazyIndex0.idx # SIZE_MAX
        /\ \A j \in 1..Len(spliceInputs) :
              /\ V[spliceInputs[j]].lazyIndex.f = lazyIndex0.f
              /\ V[spliceInputs[j]].lazyIndex.idx = lazyIndex0.idx + (j - 1)

\* std::vector::resize(n, fill)
Resize(shape, n, fill) ==
    IF Len(shape) >= n THEN SubSeq(shape, 1, n) ELSE PadTo(shape, n)

\* the body of the loop over the input positions in fused mode: the batched
\* input for position i. Returns the engine state, the batched input variable
\* and whether it counts as an actually batched input.
BatchOneInput(st, ops, i, maxRank) ==
    LET spliceInputs == GatherInputs(st.f, ops, i)
        batchSize == Len(ops)
    IN  IF AllSame(st.v, spliceInputs)
        THEN [st |-> st, input |-> spliceInputs[1], any |-> FALSE]
        ELSE IF AllConsecutiveSlices(st.v, spliceInputs)
        THEN LET from == st.v[spliceInputs[1]].lazyIndex.f
                 begin == st.v[spliceInputs[1]].lazyIndex.idx
                 output == st.f[from].output
                 fromDims == st.v[output].shape
                 axis == Len(fromDims) - 1
             IN  IF ~HasValue(st.v[output])
                 THEN [st |-> Fail(st, "InvariantViolation"), input |-> 0, any |-> TRUE]
                 ELSE IF begin = 0 /\ batchSize = fromDims[axis + 1]
                 THEN [st |-> st, input |-> output, any |-> TRUE]
                 ELSE LET st1 == RawPrimitiveFunction(st, "Slice", <<output>>,
                                     WithLastDim(fromDims, batchSize),
                                     << <<"axis", axis>>, <<"beginIndex", begin>>,
                                        <<"endIndex", begin + batchSize>> >>)
                          spliceOp == Len(st1.f)
                      IN  [st |-> MemoizeKnowableValueInArena(st1, spliceOp, TRUE, "slice", i),
                           input |-> st1.f[spliceOp].output, any |-> TRUE]
        ELSE LET st0 == LazilyIndexedValue(st, spliceInputs[1])
                 outputShape == Append(Resize(st.v[spliceInputs[1]].shape, maxRank, 1),
                                       batchSize)
                 st1 == RawPrimitiveFunction(st0, "Splice", spliceInputs, outputShape,
                                             << <<"axis", maxRank>> >>)
                 spliceOp == Len(st1.f)
             IN  IF st0.e # "" THEN [st |-> st0, input |-> 0, any |-> TRUE]
                 ELSE [st |-> MemoizeKnowableValueInArena(st1, spliceOp, FALSE, "gather", i),
                       input |-> st1.f[spliceOp].output, any |-> TRUE]

\* the loop over the input positions i0 .. numArgs-1 in fused mode
RECURSIVE BatchInputs(_, _, _, _, _, _)
BatchInputs(st, ops, i, maxRank, batchedInputs, anyBatchedInputs) ==
    IF st.e # "" \/ i > Len(st.f[ops[1]].inputs)
    THEN [st |-> st, batchedInputs |-> batchedInputs, any |-> anyBatchedInputs]
    ELSE LET r == BatchOneInput(st, ops, i, maxRank)
         IN  BatchInputs(r.st, ops, i + 1, maxRank, Append(batchedInputs, r.input),
                         anyBatchedInputs \/ r.any)

SeqMax(s) == IF s = <<>> THEN 0 ELSE CHOOSE m \in {s[k] : k \in 1..Len(s)} :
                                         \A k \in 1..Len(s) : s[k] <= m

RECURSIVE ImplantResults_SameIndex(_, _, _, _, _)
\* ImplantResults that does not advance the index j from op to op
ImplantResults_SameIndex(st, ops, k, batchedOp, j) ==
    IF st.e # "" \/ k > Len(ops) THEN st
    ELSE LET out == st.f[ops[k]].output
             st1 == [st EXCEPT !.v[out].lazyIndex = [f |-> batchedOp, idx |-> j]]
         IN  ImplantResults_SameIndex(ResetPendingToIdle(st1, ops[k]), ops, k + 1,
                                      batchedOp, j)

\* the loop that implants the lazy indices and resets the ops to idle
RECURSIVE ImplantResults(_, _, _, _, _)
ImplantResults(st, ops, k, batchedOp, j) ==
    IF st.e # "" \/ k > Len(ops) THEN st
    ELSE LET out == st.f[ops[k]].output
             st1 == [st EXCEPT !.v[out].lazyIndex = [f |-> batchedOp, idx |-> j]]
         IN  ImplantResults(ResetPendingToIdle(st1, ops[k]), ops, k + 1, batchedOp,
                            IF j # SIZE_MAX THEN j + 1 ELSE j)

\* the naive branch: every op of the batch is computed by itself
RECURSIVE ExecuteNaively(_, _, _, _)
ExecuteNaively(st, ops, k, isFree) ==
    IF st.e # "" \/ k > Len(ops) THEN st
    ELSE ExecuteNaively(
             ResetPendingToIdle(MemoizeKnowableValueInArena(st, ops[k], isFree, "op", 0), ops[k]),
             ops, k + 1, isFree)

\* the batched op with the batch axis appended straight after the axes of the
\* unbatched output, whatever the rank of the batched inputs
BatchedOp_Unpadded(b, f0, maxRank, batchSize) ==
    MemoizeKnowableValueInArena(
        IF b.any
        THEN RawPrimitiveFunction(b.st, f0.op, b.batchedInputs,
                 Append(b.st.v[f0.output].shape, batchSize), f0.attributes)
        ELSE RawPrimitiveFunction(b.st, f0.op, f0.inputs, b.st.v[f0.output].shape,
                                  f0.attributes),
        Len(b.st.f) + 1, FALSE, "op", 0)

\* the batched op of the fused branch: a new Function over the batched inputs
\* (or over the inputs of the first op when no input was batched), computed once
BatchedOp(b, f0, maxRank, batchSize) ==
    MemoizeKnowableValueInArena(
        IF b.any
        THEN RawPrimitiveFunction(b.st, f0.op, b.batchedInputs,
                 AppendAxis(b.st.v[f0.output].shape, maxRank, batchSize), f0.attributes)
        ELSE RawPrimitiveFunction(b.st, f0.op, f0.inputs, b.st.v[f0.output].shape,
                                  f0.attributes),
        Len(b.st.f) + 1, FALSE, "op", 0)

\* the fused branch once the inputs are batched: run the op, implant lazy indices
ExecuteBatched(b, ops, f0, maxRank) ==
    IF b.st.e # "" THEN b.st
    ELSE ImplantResults(BatchedOp(b, f0, maxRank, Len(ops)), ops, 1, Len(b.st.f) + 1,
                        IF b.any THEN 0 ELSE SIZE_MAX)

\* the fused branch: batch the inputs, run the op once, implant lazy indices
ExecuteFused(st, ops) ==
    LET f0 == st.f[ops[1]]
        i0 == IF f0.op = "Times" THEN 1 ELSE 0
        maxRank == SeqMax([i \in 1..(Len(f0.inputs) - i0) |->
                              Rank(st.v[f0.inputs[i + i0]].shape)])
    IN  ExecuteBatched(BatchInputs(st, ops, i0 + 1, maxRank,
                                   IF i0 = 1 THEN <<f0.inputs[1]>> ELSE <<>>, FALSE),
                       ops, f0, maxRank)

\* NotifyConsumers that notifies the first consumer only
NotifyConsumers_FirstOnly(st, consumers, k) ==
    IF st.e # "" \/ consumers = <<>> THEN st
    ELSE NotifyInputAvailable(st, consumers[1][1])

\* the loop over the consumers of one output: notify each of them
RECURSIVE NotifyConsumers(_, _, _)
NotifyConsumers(st, consumers, k) ==
    IF st.e # "" \/ k > Len(consumers) THEN st
    ELSE NotifyConsumers(NotifyInputAvailable(st, consumers[k][1]), consumers, k + 1)

\* the final loop: notify the consumers of every op and clear the consumer lists
RECURSIVE UpdateSchedule(_, _, _)
UpdateSchedule(st, ops, k) ==
    IF st.e # "" \/ k > Len(ops) THEN st
    ELSE LET out == st.f[ops[k]].output
             st1 == NotifyConsumers(st, st.v[out].consumers, 1)
         IN  IF st1.e # "" THEN st1
             ELSE UpdateSchedule([st1 EXCEPT !.v[out].consumers = <<>>], ops, k + 1)

\* the 'doNaively' decision with the test of the batch size always true
DoNaively_AnySize(F, V, ops) ==
    LET f0 == F[ops[1]]
    IN  \/ IsViewOp(f0.op)
        \/ /\ f0.op = "Times"
           /\ HasValue(V[f0.inputs[2]])
           /\ V[f0.inputs[2]].value.sparse
        \/ f0.op = "Splice"
        \/ Len(ops) >= 1

\* the 'doNaively' decision without the test for a sparse operand
DoNaively_DenseOnly(F, V, ops) ==
    LET f0 == F[ops[1]]
    IN  \/ IsViewOp(f0.op)
        \/ f0.op = "Splice"
        \/ Len(ops) = 1

\* the 'doNaively' decision without the test of the batch size: a single
\* regular op is executed as a fused batch of one
DoNaively_NoSizeTest(F, V, ops) ==
    LET f0 == F[ops[1]]
    IN  \/ IsViewOp(f0.op)
        \/ /\ f0.op = "Times"
           /\ HasValue(V[f0.inputs[2]])
           /\ V[f0.inputs[2]].value.sparse
        \/ f0.op = "Splice"

\* the 'doNaively' decision
DoNaively(F, V, ops) ==
    LET f0 == F[ops[1]]
    IN  \/ IsViewOp(f0.op)
        \/ /\ f0.op = "Times"
           /\ HasValue(V[f0.inputs[2]])
           /\ V[f0.inputs[2]].value.sparse
        \/ f0.op = "Splice"
        \/ Len(ops) = 1

\* Variable::Memoize::ExecuteBatchedOpAndUpdateSchedule
ExecuteBatchedOpAndUpdateSchedule(st, ops) ==
    LET isFree == IsViewOp(st.f[ops[1]].op)
        st1 == IF DoNaively(st.f, st.v, ops)
               THEN ExecuteNaively(st, ops, 1, isFree)
               ELSE ExecuteFused(st, ops)
    IN  UpdateSchedule(st1, ops, 1)


-----------------------------------------------------------------------------
(* ===== backward ===== *)

(* Gradient tensors. A gradient buffer is a sequence of cells, one per index
   of its last axis; a cell records whether it still holds uninitialised
   memory and which contributions were summed into it. A Variable's
   m_gradient refers to a whole buffer (idx = SIZE_MAX) or to the
   IndexLastAxis view of one cell. *)

HasGradient(fields) == fields.gradient.buf # 0

LastDim(shape) == IF shape = <<>> THEN 1 ELSE shape[Len(shape)]

FreshCell == [garb |-> TRUE, sum |-> <<>>]


SeedTag == [f |-> 0, i |-> 0]

WholeOf(buf) == [buf |-> buf, idx |-> SIZE_MAX]

\* the cells of its buffer a gradient reference covers
Covered(g, ref) ==
    IF ref.idx = SIZE_MAX THEN 1..Len(g[ref.buf]) ELSE {ref.idx + 1} \cap 1..Len(g[ref.buf])

\* NDArrayView::SetValue on a gradient
SetValue(g, ref, sum) ==
    [g EXCEPT ![ref.buf] = [c \in 1..Len(@) |->
        IF c \in Covered(g, ref) THEN [garb |-> FALSE, sum |-> sum] ELSE @[c]]]

\* the reverse-mode kernel: gradient := beta * gradient + contribution
Accumulate(g, ref, beta, tag) ==
    [g EXCEPT ![ref.buf] = [c \in 1..Len(@) |->
        IF c \in Covered(g, ref)
        THEN IF beta = 0 THEN [garb |-> FALSE, sum |-> <<tag>>]
             ELSE [garb |-> @[c].garb, sum |-> Append(@[c].sum, tag)]
        ELSE @[c]]]

\* AllocateTensorInArena for a gradient: a new buffer of uninitialised memory
AllocateGradient(st, shape) ==
    [st EXCEPT !.g = Append(@, [c \in 1..LastDim(shape) |-> FreshCell])]

\* history: the record of a call fromGradient->SetValue(0.0f)
ZeroEntry(ref) == [f |-> 0, i |-> 0, beta |-> 0, into |-> ref, og |-> <<>>]

RECURSIVE LazilyCreateLazilyIndexedGradient_ZeroEachSlice(_, _)
\* LazilyCreateLazilyIndexedGradient that zeroes the gradient of the fused
\* output whenever it hands out a slice of it
LazilyCreateLazilyIndexedGradient_ZeroEachSlice(st, v) ==
    LET fields == st.v[v]
    IN  IF HasGradient(fields) THEN [st |-> st, beta |-> 1]
        ELSE IF HasLazyIndex(fields)
        THEN LET index == fields.lazyIndex.idx
                 fromOutput == st.f[fields.lazyIndex.f].output
                 r == LazilyCreateLazilyIndexedGradient_ZeroEachSlice(st, fromOutput)
                 fromGradient == r.st.v[fromOutput].gradient
             IN  IF index = SIZE_MAX
                 THEN [st |-> [r.st EXCEPT !.v[v].gradient = fromGradient],
                       beta |-> r.beta]
                 ELSE [st |-> [r.st EXCEPT !.g = SetValue(@, fromGradient, <<>>),
                                           !.p = Append(@, ZeroEntry(fromGradient)),
                                           !.v[v].gradient =
                                               [buf |-> fromGradient.buf, idx |-> index]],
                       beta |-> 1]
        ELSE LET st1 == AllocateGradient(st, fields.shape)
             IN  [st |-> [st1 EXCEPT !.v[v].gradient = WholeOf(Len(st1.g))],
                  beta |-> 0]

RECURSIVE LazilyCreateLazilyIndexedGradient_NoReset(_, _)
\* LazilyCreateLazilyIndexedGradient that does not zero the freshly created
\* gradient of the fused output before a slice of it is handed out
LazilyCreateLazilyIndexedGradient_NoReset(st, v) ==
    LET fields == st.v[v]
    IN  IF HasGradient(fields) THEN [st |-> st, beta |-> 1]
        ELSE IF HasLazyIndex(fields)
        THEN LET index == fields.lazyIndex.idx
                 fromOutput == st.f[fields.lazyIndex.f].output
                 r == LazilyCreateLazilyIndexedGradient_NoReset(st, fromOutput)
                 fromGradient == r.st.v[fromOutput].gradient
             IN  IF index = SIZE_MAX
                 THEN [st |-> [r.st EXCEPT !.v[v].gradient = fromGradient],
                       beta |-> r.beta]
                 ELSE [st |-> [r.st EXCEPT !.v[v].gradient =
                                   [buf |-> fromGradient.buf, idx |-> index]],
                       beta |-> 1]
        ELSE LET st1 == AllocateGradient(st, fields.shape)
             IN  [st |-> [st1 EXCEPT !.v[v].gradient = WholeOf(Len(st1.g))],
                  beta |-> 0]

RECURSIVE LazilyCreateLazilyIndexedGradient_Shared(_, _)
\* LazilyCreateLazilyIndexedGradient that reports a gradient it shares with the
\* fused output (index SIZE_MAX) as new, whether the fused output had one or not
LazilyCreateLazilyIndexedGradient_Shared(st, v) ==
    LET fields == st.v[v]
    IN  IF HasGradient(fields) THEN [st |-> st, beta |-> 1]
        ELSE IF HasLazyIndex(fields)
        THEN LET index == fields.lazyIndex.idx
                 fromOutput == st.f[fields.lazyIndex.f].output
                 r == LazilyCreateLazilyIndexedGradient_Shared(st, fromOutput)
                 fromGradient == r.st.v[fromOutput].gradient
             IN  IF index = SIZE_MAX
                 THEN [st |-> [r.st EXCEPT !.v[v].gradient = fromGradient],
                       beta |-> 0]
                 ELSE LET st1 == IF r.beta = 0
                                 THEN [r.st EXCEPT !.g = SetValue(@, fromGradient, <<>>),
                                                   !.p = Append(@, ZeroEntry(fromGradient))]
                                 ELSE r.st
                      IN  [st |-> [st1 EXCEPT !.v[v].gradient =
                                       [buf |-> fromGradient.buf, idx |-> index]],
                           beta |-> 1]
        ELSE LET st1 == AllocateGradient(st, fields.shape)
             IN  [st |-> [st1 EXCEPT !.v[v].gradient = WholeOf(Len(st1.g))],
                  beta |-> 0]

RECURSIVE LazilyCreateLazilyIndexedGradient(_, _)
\* Variable::Memoize::LazilyCreateLazilyIndexedGradient; returns the engine
\* state and beta
LazilyCreateLazilyIndexedGradient(st, v) ==
    LET fields == st.v[v]
    IN  IF HasGradient(fields) THEN [st |-> st, beta |-> 1]
        ELSE IF HasLazyIndex(fields)
        THEN LET index == fields.lazyIndex.idx
                 fromOutput == st.f[fields.lazyIndex.f].output
                 r == LazilyCreateLazilyIndexedGradient(st, fromOutput)
                 fromGradient == r.st.v[fromOutput].gradient
             IN  IF index = SIZE_MAX
                 THEN [st |-> [r.st EXCEPT !.v[v].gradient = fromGradient],
                       beta |-> r.beta]
                 ELSE LET st1 == IF r.beta = 0
                                 THEN [r.st EXCEPT !.g = SetValue(@, fromGradient, <<>>),
                                                   !.p = Append(@, ZeroEntry(fromGradient))]
                                 ELSE r.st
                      IN  [st |-> [st1 EXCEPT !.v[v].gradient =
                                       [buf |-> fromGradient.buf, idx |-> index]],
                           beta |-> 1]
        ELSE LET st1 == AllocateGradient(st, fields.shape)
             IN  [st |-> [st1 EXCEPT !.v[v].gradient = WholeOf(Len(st1.g))],
                  beta |-> 0]

RECURSIVE DetermineConsumersForBackward(_, _), DetermineConsumersOfFunction(_, _),
          DetermineConsumersOfInputs(_, _, _)

\* the loop over the inputs of f that records the consumer entry on the input
\* itself instead of on the fused output its lazy index refers to
RECURSIVE DetermineConsumersOfInputs_NoRedirect(_, _, _)
DetermineConsumersOfInputs_NoRedirect(st, f, i) ==
    IF st.e # "" \/ i > Len(st.f[f].inputs) THEN st
    ELSE LET input == st.f[f].inputs[i]
             st1 == [st EXCEPT !.v[input].visited = FALSE]
         IN  IF ~st.v[input].needsGradient
             THEN DetermineConsumersOfInputs_NoRedirect(st1, f, i + 1)
             ELSE DetermineConsumersOfInputs_NoRedirect(
                      DetermineConsumersForBackward(
                          [st1 EXCEPT !.v[input].gradient = NoGradient,
                                      !.v[input].consumers = Append(@, <<f, i - 1>>)],
                          input),
                      f, i + 1)

\* Variable::Memoize::DetermineConsumersForBackward(const Variable&)
DetermineConsumersForBackward(st, var) ==
    IF st.e # "" THEN st
    ELSE LET st1 == [st EXCEPT !.v[var].visited = FALSE]
             fields == st.v[var]
         IN  IF fields.kind \in {"Parameter", "Constant"} THEN st1
             ELSE IF ~HasValue(fields) THEN Fail(st1, "MissingValue")
             ELSE IF ~fields.needsGradient THEN Fail(st1, "InvariantViolation")
             ELSE IF fields.kind \in {"Input", "Placeholder"}
             THEN Fail(st1, "InvariantViolation")
             ELSE IF HasLazyIndex(fields)
             THEN DetermineConsumersOfFunction(st1, fields.lazyIndex.f)
             ELSE DetermineConsumersOfFunction(st1, fields.owner)

\* Variable::Memoize::DetermineConsumersForBackward(Function&)
DetermineConsumersOfFunction(st, f) ==
    IF st.e # "" THEN st
    ELSE IF st.f[f].pendingInputs = -2 THEN Fail(st, "CyclicGraph")
    ELSE IF st.f[f].pendingInputs # -1 THEN st
    ELSE IF st.f[f].op = "StopGradient" THEN Fail(st, "UnexpectedStopGradient")
    ELSE LET st1 == DetermineConsumersOfInputs([st EXCEPT !.f[f].pendingInputs = -2], f, 1)
         IN  IF st1.e # "" THEN st1 ELSE [st1 EXCEPT !.f[f].pendingInputs = 0]

\* the loop over the inputs of f in DetermineConsumersForBackward(Function&)
DetermineConsumersOfInputs(st, f, i) ==
    IF st.e # "" \/ i > Len(st.f[f].inputs) THEN st
    ELSE LET input0 == st.f[f].inputs[i]
             input == IF HasLazyIndex(st.v[input0])
                      THEN st.f[st.v[input0].lazyIndex.f].output
                      ELSE input0
             st1 == [st EXCEPT !.v[input].visited = FALSE]
         IN  IF ~st.v[input].needsGradient THEN DetermineConsumersOfInputs(st1, f, i + 1)
             ELSE DetermineConsumersOfInputs(
                      DetermineConsumersForBackward(
                          [st1 EXCEPT !.v[input].gradient = NoGradient,
                                      !.v[input].consumers = Append(@, <<f, i - 1>>)],
                          input),
                      f, i + 1)

\* Variable::Memoize::BackpropTo
BackpropTo(st, f, index) ==
    LET inputs == st.f[f].inputs
        input == inputs[index + 1]
        output == st.f[f].output
        outputFields == st.v[output]
    IN  IF st.e # "" THEN st
        ELSE IF ~st.v[input].needsGradient THEN Fail(st, "InvariantViolation")
        ELSE IF HasLazyIndex(outputFields) THEN Fail(st, "InvariantViolation")
        ELSE IF ~HasValue(outputFields) THEN Fail(st, "MissingValue")
        ELSE IF ~HasGradient(outputFields) THEN Fail(st, "MissingGradient")
        ELSE IF \E i \in 1..Len(inputs) : ~HasValue(st.v[inputs[i]])
        THEN Fail(st, "MissingValue")
        ELSE LET r == LazilyCreateLazilyIndexedGradient(st, input)
                 gradient == r.st.v[input].gradient
             IN  [r.st EXCEPT
                     !.g = Accumulate(@, gradient, r.beta, [f |-> f, i |-> index]),
                     !.p = Append(@, [f |-> f, i |-> index, beta |-> r.beta,
                                      into |-> gradient,
                                      og |-> [c \in Covered(st.g, outputFields.gradient)
                                                 |-> st.g[outputFields.gradient.buf][c]]])]

\* a loop 'for (auto& c : consumers) BackpropTo(c.first, c.second)'
RECURSIVE BackpropToAll(_, _, _)
BackpropToAll(st, consumers, k) ==
    IF st.e # "" \/ k > Len(consumers) THEN st
    ELSE BackpropToAll(BackpropTo(st, consumers[k][1], consumers[k][2]), consumers, k + 1)

\* Variable::Memoize::BackpropToMatrixWeight (the per-consumer loop is compiled)
BackpropToMatrixWeight(st, consumers) == BackpropToAll(st, consumers, 1)

\* Variable::Memoize::DetermineBucket
DetermineBucket(F, c) ==
    IF F[c[1]].op = "Times" /\ c[2] = 0 THEN "matrixWeight" ELSE "other"

Bucket(F, consumers, name) ==
    SelectSeq(consumers, LAMBDA c : DetermineBucket(F, c) = name)

RECURSIVE AggregateGradientFromAllConsumers(_, _), AggregateConsumerOutputs(_, _, _)

\* Variable::Memoize::AggregateGradientFromAllConsumers
AggregateGradientFromAllConsumers(st, var) ==
    LET fields == st.v[var]
        consumers == fields.consumers
    IN  IF st.e # "" THEN st
        ELSE IF fields.visited THEN st
        ELSE IF consumers = <<>> THEN st
        ELSE IF ~fields.needsGradient THEN Fail(st, "InvariantViolation")
        ELSE LET st1 == AggregateConsumerOutputs([st EXCEPT !.v[var].visited = TRUE],
                                                 consumers, 1)
             IN  IF st1.e # "" THEN st1
                 ELSE IF fields.kind # "Parameter" /\ HasGradient(st1.v[var])
                 THEN Fail(st1, "InvariantViolation")
                 ELSE IF Len(consumers) = 1
                 THEN BackpropTo(st1, consumers[1][1], consumers[1][2])
                 ELSE BackpropToAll(
                          BackpropToMatrixWeight(st1, Bucket(st1.f, consumers, "matrixWeight")),
                          Bucket(st1.f, consumers, "other"), 1)

\* the loops that realize the gradients of all consumers' outputs
AggregateConsumerOutputs(st, consumers, k) ==
    IF st.e # "" \/ k > Len(consumers) THEN st
    ELSE AggregateConsumerOutputs(
             AggregateGradientFromAllConsumers(st, st.f[consumers[k][1]].output),
             consumers, k + 1)

\* the loop of Backward that resets or drops the caller's gradient buffers:
\* a supplied buffer is zeroed and stays the parameter's m_gradient
RECURSIVE ImplantUserGradients(_, _, _)
ImplantUserGradients(st, gradients, keys) ==
    IF keys = {} THEN st
    ELSE LET p == CHOOSE p \in keys : TRUE
             kv == gradients[p]
             st1 == IF kv.buf # 0
                    THEN [st EXCEPT !.g = SetValue(@, WholeOf(kv.buf), <<>>),
                                    !.v[p].gradient = WholeOf(kv.buf)]
                    ELSE [st EXCEPT !.v[p].gradient = NoGradient]
         IN  ImplantUserGradients(st1, gradients, keys \ {p})

-----------------------------------------------------------------------------
(* The public calls *)

NoCall == [kind |-> "none", root |-> 0, clean |-> TRUE, hadValue |-> FALSE,
           repeat |-> FALSE, traversed |-> {}]

NoGrads == [p \in {} |-> NoGradient]

\* what a gradient tensor holds: per element, whether it is uninitialised
\* memory, and the contributions summed into it (null: no tensor)
Content(g, ref) ==
    IF ref.buf = 0 THEN <<"null">>
    ELSE [c \in Covered(g, ref) |->
             [garb |-> g[ref.buf][c].garb,
              sum |-> {g[ref.buf][c].sum[k] : k \in 1..Len(g[ref.buf][c].sum)},
              n |-> Len(g[ref.buf][c].sum)]]

NoBackward == [root |-> 0, content |-> [p \in {} |-> <<"null">>]]

\* state cleanliness: every Function idle, every consumer list empty
Clean(V, F) ==
    /\ \A f \in 1..Len(F) : F[f].pendingInputs = -1
    /\ \A v \in 1..Len(V) : V[v].consumers = <<>>

Commit(st) ==
    /\ vars' = st.v
    /\ funcs' = st.f
    /\ sched' = st.s
    /\ nobj' = st.o
    /\ klog' = st.k
    /\ err' = st.e
    /\ heap' = st.g
    /\ plog' = st.p

-----------------------------------------------------------------------------
(* ===== arena ===== *)

\* everything but the state of the arena allocator
engineVars_ == <<vars, funcs, sched, pc, call, result, err, klog, blog, nobj, nops,
                 client, heap, grads, todo, plog, ret, bret>>

\* the engine instances (Memoize objects); AllocateTensorInArena is a member
\* function, its two statics are shared by all of them
Engines == 1..NumEngines

DataTypes == {"Float", "Double"}

Devices == {"CPU", "GPU"}

\* no call of AllocateTensorInArena in progress
NoAlloc ==
    [pc |-> "idle", numElements |-> 0, dataType |-> "", device |-> "",
     startOffset |-> 0, region |-> 0]

\* the calls of AllocateTensorInArena made so far
Started == Len(alog) + Cardinality({e \in Engines : alloc[e].pc # "idle"})

\* the capacity test of line 79 left out
Exceeds_Never(numElements, used) == FALSE

\* numElements > (ARENASIZE - m_currentArenaUsed) in size_t arithmetic: when
\* used is above ARENASIZE the difference wraps around to a number above
\* every numElements that gets here (numElements <= ARENASIZE)
Exceeds(numElements, used) ==
    IF used > ARENASIZE THEN FALSE ELSE numElements > ARENASIZE - used

\* what a call hands back: a range of an arena block, a tensor of its own
\* ("standalone"), or the exception of SliceView ("throw")
Returned(e, kind, block, start, a) ==
    [engine |-> e, kind |-> kind, block |-> block, start |-> start,
     extent |-> a.numElements,
     dataType |-> IF kind = "arena" THEN blocks[block].dataType ELSE a.dataType,
     device |-> IF kind = "arena" THEN blocks[block].device ELSE a.device,
     asked |-> <<a.dataType, a.device>>]

\* AllocateTensorInArena, lines 74-77: entry; "if too large then plain alloc"
AllocateTensorInArena(e, numElements, dataType, device) ==
    LET a == [NoAlloc EXCEPT !.numElements = numElements, !.dataType = dataType,
                             !.device = device]
    IN  /\ alloc[e].pc = "idle"
        /\ Started < MaxAllocs
        /\ IF numElements > ARENASIZE
           THEN /\ alog' = Append(alog, Returned(e, "standalone", 0, 0, a))
                /\ UNCHANGED alloc
           ELSE /\ alloc' = [alloc EXCEPT ![e] = [a EXCEPT !.pc = "capacity"]]
                /\ UNCHANGED alog
        /\ UNCHANGED <<m_currentArena, m_currentArenaUsed, blocks, engineVars_, pastEnd>>

\* line 79: "if arena not large enough then waste its remainder"
CheckCapacity(e) ==
    /\ alloc[e].pc = "capacity"
    /\ alloc' = [alloc EXCEPT ![e].pc =
                    IF m_currentArena = 0 \/ Exceeds(alloc[e].numElements, m_currentArenaUsed)
                    THEN "fresh" ELSE "offset"]
    /\ UNCHANGED <<m_currentArena, m_currentArenaUsed, blocks, alog, engineVars_, pastEnd>>

\* line 81: a fresh block of ARENASIZE elements, of the data type and on the
\* device of this request
NewArena(e) ==
    /\ alloc[e].pc = "fresh"
    /\ blocks' = Append(blocks, [dataType |-> alloc[e].dataType, device |-> alloc[e].device])
    /\ m_currentArena' = Len(blocks) + 1
    /\ alloc' = [alloc EXCEPT ![e].pc = "reset"]
    /\ UNCHANGED <<m_currentArenaUsed, alog, engineVars_, pastEnd>>

\* line 82
ResetUsed(e) ==
    /\ alloc[e].pc = "reset"
    /\ m_currentArenaUsed' = 0
    /\ alloc' = [alloc EXCEPT ![e].pc = "offset"]
    /\ UNCHANGED <<m_currentArena, blocks, alog, engineVars_, pastEnd>>

\* line 84: startOffset{ m_currentArenaUsed }
ReadOffset(e) ==
    /\ alloc[e].pc = "offset"
    /\ alloc' = [alloc EXCEPT ![e].pc = "slice", ![e].startOffset = m_currentArenaUsed]
    /\ UNCHANGED <<m_currentArena, m_currentArenaUsed, blocks, alog, engineVars_, pastEnd>>

\* line 86: region = m_currentArena->SliceView(startOffset, extent); SliceView
\* throws when the range does not lie inside the block
SliceView(e) ==
    /\ alloc[e].pc = "slice"
    /\ IF alloc[e].startOffset + alloc[e].numElements > ARENASIZE
       THEN /\ alog' = Append(alog, Returned(e, "throw", 0, 0, alloc[e]))
            /\ alloc' = [alloc EXCEPT ![e] = NoAlloc]
       ELSE /\ alloc' = [alloc EXCEPT ![e].pc = "advance", ![e].region = m_currentArena]
            /\ UNCHANGED alog
    /\ UNCHANGED <<m_currentArena, m_currentArenaUsed, blocks, engineVars_, pastEnd>>

\* line 87: m_currentArenaUsed += numElements
AdvanceUsed(e) ==
    /\ alloc[e].pc = "advance"
    /\ m_currentArenaUsed' = m_currentArenaUsed + alloc[e].numElements
    /\ alloc' = [alloc EXCEPT ![e].pc = "return"]
    /\ UNCHANGED <<m_currentArena, blocks, alog, engineVars_, pastEnd>>

\* line 88: return region->AsShape(shape)
ReturnRegion(e) ==
    /\ alloc[e].pc = "return"
    /\ alog' = Append(alog, Returned(e, "arena", alloc[e].region, alloc[e].startOffset,
                                     alloc[e]))
    /\ alloc' = [alloc EXCEPT ![e] = NoAlloc]
    /\ UNCHANGED <<m_currentArena, m_currentArenaUsed, blocks, engineVars_, pastEnd>>

-----------------------------------------------------------------------------
(* ===== public calls ===== *)

\* the client has built the graph 'defs' on the leaves; no call was made yet
InitEngine(defs) ==
    /\ LET g == BuildGraph(EmptyGraph, defs, 1)
       IN  vars = g.v /\ funcs = g.f /\ client = 1..Len(g.v)
    /\ sched = EmptySchedule
    /\ pc = "idle"
    /\ call = NoCall
    /\ result = NoTensor
    /\ err = ""
    /\ klog = <<>>
    /\ blog = <<>>
    /\ nobj = 2
    /\ nops = 0
    /\ heap = <<>>
    /\ grads = NoGrads
    /\ todo = {}
    /\ plog = <<>>
    /\ ret = [v \in {} |-> NoTensor]
    /\ bret = NoBackward

\* the statics of AllocateTensorInArena are zero-initialized; no call is in
\* progress
InitArena ==
    /\ m_currentArena = 0
    /\ m_currentArenaUsed = 0
    /\ blocks = <<>>
    /\ alloc = [e \in Engines |-> NoAlloc]
    /\ alog = <<>>

\* the graphs of the catalogue have one number of inputs per op code: no read
\* past the end of m_inputs
Init == (\E defs \in Catalogue : InitEngine(defs)) /\ InitArena /\ pastEnd = FALSE

\* the client adds a function to its graph (define-by-run); it does so to
\* evaluate it, so an operation is left for the call
AddFunction(op, inputs) ==
    /\ pc = "idle"
    /\ nops + 1 < MaxOps
    /\ \A i \in 1..Len(inputs) : inputs[i] \in client
    /\ WellTyped(op, [i \in 1..Len(inputs) |-> vars[inputs[i]].shape])
    /\ LET g == UserFunction([v |-> vars, f |-> funcs], op, inputs, UserAttributes(op))
       IN  vars' = g.v /\ funcs' = g.f /\ client' = client \cup {Len(g.v)}
    /\ nops' = nops + 1
    /\ call' = [NoCall EXCEPT !.kind = "add"]
    /\ UNCHANGED <<sched, pc, result, err, klog, blog, nobj, heap, grads, todo, plog, ret,
                   bret, arenaVars_, pastEnd>>

\* the roots the client evaluates: BatchedForward and BatchedBackward are
\* methods of a Function and evaluate its output. After AddFunction the root
\* is the function just added (another root of the grown graph repeats a run
\* of the graph as it was).
Roots == IF call.kind = "add" THEN {Len(vars)}
         ELSE {v \in client : vars[v].owner # 0}

\* GetValue without the early return for a variable that has its value
GetValue_NoEarlyReturn(v, after) ==
    LET st == TraverseFunctionTreeForward(
                  [Engine EXCEPT !.s = EmptySchedule, !.k = <<>>, !.p = <<>>], v)
    IN  /\ Commit(st)
        /\ pc' = IF st.e # "" THEN "failed" ELSE "run"

\* Memoize::GetValue(v), up to the loop; 'after' is where the caller continues
GetValue(v, after) ==
    IF HasValue(vars[v])
    THEN /\ pc' = after
         /\ klog' = <<>> /\ plog' = <<>>
         /\ UNCHANGED <<vars, funcs, sched, err, nobj, heap>>
    ELSE LET st == TraverseFunctionTreeForward(
                       [Engine EXCEPT !.s = EmptySchedule, !.k = <<>>, !.p = <<>>], v)
         IN  /\ Commit(st)
             /\ pc' = IF st.e # "" THEN "failed" ELSE "run"

\* history: the functions the traversal of GetValue(v) visits
Traversed(v) ==
    IF HasValue(vars[v]) THEN {}
    ELSE LET st == TraverseFunctionTreeForward([Engine EXCEPT !.s = EmptySchedule], v)
         IN  {f \in 1..Len(funcs) : st.f[f].pendingInputs # funcs[f].pendingInputs}

NewCall(kind, v) ==
    [kind |-> kind, root |-> v, clean |-> Clean(vars, funcs),
     hadValue |-> HasValue(vars[v]), repeat |-> v \in DOMAIN ret,
     traversed |-> Traversed(v)]

\* PrimitiveFunction::BatchedForward
Forward(v) ==
    /\ pc = "idle"
    /\ nops < MaxOps
    /\ v \in Roots
    /\ nops' = nops + 1
    /\ call' = NewCall("forward", v)
    /\ blog' = <<>>
    /\ GetValue(v, "idle")
    /\ result' = IF HasValue(vars[v]) THEN vars[v].value ELSE NoTensor
    /\ ret' = IF HasValue(vars[v])
              THEN [x \in DOMAIN ret \cup {v} |-> IF x = v THEN vars[v].value ELSE ret[x]]
              ELSE ret
    /\ UNCHANGED <<client, grads, todo, bret, arenaVars_, pastEnd>>

\* one iteration of the loop of GetValue: pop_best and execute the batch
ExecuteStep ==
    /\ pc = "run"
    /\ ~SchedEmpty(sched)
    /\ LET p == pop_best(sched)
           st == ExecuteBatchedOpAndUpdateSchedule([Engine EXCEPT !.s = p.s], p.ops)
       IN  /\ Commit(st)
           /\ blog' = Append(blog, [ops |-> p.ops, queue |-> p.queue,
                                    naive |-> DoNaively(funcs, vars, p.ops)])
           /\ pc' = IF st.e # "" THEN "failed" ELSE "run"
    /\ UNCHANGED <<call, result, nops, client, grads, todo, ret, bret, arenaVars_, pastEnd>>

\* the loop of GetValue has ended: resolve the root and return
GetValueReturn ==
    /\ pc = "run"
    /\ SchedEmpty(sched)
    /\ LET st == LazilyIndexedValue(Engine, call.root)
       IN  /\ Commit(st)
           /\ result' = IF call.kind = "forward" THEN st.v[call.root].value ELSE result
           /\ ret' = IF call.kind = "forward" /\ st.e = ""
                     THEN [x \in DOMAIN ret \cup {call.root} |->
                              IF x = call.root THEN st.v[call.root].value ELSE ret[x]]
                     ELSE ret
           /\ pc' = IF st.e # "" THEN "failed"
                    ELSE IF call.kind = "forward" THEN "idle" ELSE "consumers"
    /\ UNCHANGED <<call, blog, nops, client, grads, todo, bret, arenaVars_, pastEnd>>

\* PrimitiveFunction::BatchedBackward -> Memoize::Backward, up to GetValue(root).
\* The statement 'logic_error("...")' on a root that needs no gradient
\* constructs an exception object and drops it: nothing is thrown.
Backward(root) ==
    /\ pc = "idle"
    /\ nops < MaxOps
    /\ root \in Roots
    /\ nops' = nops + 1
    /\ call' = NewCall("backward", root)
    /\ blog' = <<>>
    /\ GetValue(root, "consumers")
    /\ grads' = NoGrads
    /\ UNCHANGED <<result, client, todo, ret, bret, arenaVars_, pastEnd>>

\* the parameters a gradient may be requested for
Requestable == {p \in 1..Len(Leaves) : Leaves[p].kind = "Parameter" /\ Rank(Leaves[p].shape) < 3}

\* Backward from DetermineConsumersForBackward(root) to the loop that implants
\* the caller's buffers. The map 'gradients' is an argument of the call; it is
\* first read here, and drawn here: 'supplied' are the keys with a non-null tensor.
BackwardImplant(keys, supplied) ==
    /\ pc = "consumers"
    /\ LET root == call.root
           st0 == DetermineConsumersForBackward(Engine, root)
           \* the caller's buffers exist before the call; they hold old content
           stU == [st0 EXCEPT !.g = @ \o [k \in 1..Cardinality(supplied) |->
                                            [c \in 1..2 |-> FreshCell]]]
           order == CHOOSE sq \in [1..Cardinality(supplied) -> supplied] :
                        \A a, b \in 1..Cardinality(supplied) : a < b => sq[a] < sq[b]
           gradients == [p \in keys |->
                           IF p \in supplied
                           THEN WholeOf(Len(st0.g) + CHOOSE k \in 1..Cardinality(supplied) :
                                                         order[k] = p)
                           ELSE NoGradient]
           st1 == AllocateGradient(stU, stU.v[root].shape)
           st2 == [st1 EXCEPT !.v[root].gradient = WholeOf(Len(st1.g)),
                              !.g = SetValue(@, WholeOf(Len(st1.g)), <<SeedTag>>)]
           st3 == ImplantUserGradients(st2, gradients, keys)
       IN  IF st0.e # ""
           THEN Commit(st0) /\ pc' = "failed" /\ UNCHANGED <<grads, todo>>
           ELSE Commit(st3) /\ pc' = "aggregate" /\ grads' = gradients /\ todo' = keys
    /\ UNCHANGED <<call, result, blog, nops, client, ret, bret, arenaVars_, pastEnd>>

\* one iteration of the aggregation loop of Backward, in the map's iteration
\* order (unspecified). Both 'logic_error("...")' statements of the loop
\* construct an exception object and drop it: nothing is thrown.
BackwardAggregate(param) ==
    /\ pc = "aggregate"
    /\ param \in todo
    /\ LET st == AggregateGradientFromAllConsumers(Engine, param)
       IN  /\ Commit(st)
           /\ pc' = IF st.e # "" THEN "failed" ELSE "aggregate"
    /\ todo' = todo \ {param}
    /\ UNCHANGED <<call, result, blog, nops, client, grads, ret, bret, arenaVars_, pastEnd>>

\* the end of Backward: hand the gradients out and clear the consumer lists of
\* the requested parameters
BackwardReturn ==
    /\ pc = "aggregate"
    /\ todo = {}
    /\ grads' = [p \in DOMAIN grads |-> vars[p].gradient]
    /\ bret' = [root |-> call.root,
                content |-> [p \in DOMAIN grads |-> Content(heap, vars[p].gradient)]]
    /\ vars' = [v \in 1..Len(vars) |->
                  IF v \in DOMAIN grads THEN [vars[v] EXCEPT !.consumers = <<>>] ELSE vars[v]]
    /\ pc' = "idle"
    /\ UNCHANGED <<funcs, sched, call, result, err, klog, blog, nobj, nops, client, heap,
                   todo, plog, ret, arenaVars_, pastEnd>>

MaxKeys == 2

Next ==
    \/ \E op \in UserOps : \E i1, i2 \in client :
          AddFunction(op, IF Arity(op) = 2 THEN <<i1, i2>> ELSE <<i1>>)
    \/ \E v \in client : Forward(v)
    \/ \E v \in client : Backward(v)
    \/ ExecuteStep
    \/ GetValueReturn
    \/ \E keys \in SUBSET Requestable : \E supplied \in SUBSET (keys \cap {3}) :
          Cardinality(keys) <= MaxKeys /\ BackwardImplant(keys, supplied)
    \/ \E param \in todo : BackwardAggregate(param)
    \/ BackwardReturn

Spec == Init /\ [][Next]_vars_

\* The allocator on its own: the engine instances call AllocateTensorInArena
\* with no synchronisation between them, so the statements of their calls
\* interleave. The accesses to the two statics are a data race; the outcomes
\* modelled are those of the interleavings of the statements.
ArenaInit == InitEngine(<<>>) /\ InitArena /\ pastEnd = FALSE

ArenaNext ==
    \E e \in Engines :
        \/ \E numElements \in RequestSizes : \E dataType \in DataTypes : \E device \in Devices :
              AllocateTensorInArena(e, numElements, dataType, device)
        \/ CheckCapacity(e)
        \/ NewArena(e)
        \/ ResetUsed(e)
        \/ ReadOffset(e)
        \/ SliceView(e)
        \/ AdvanceUsed(e)
        \/ ReturnRegion(e)

ArenaSpec == ArenaInit /\ [][ArenaNext]_vars_

\* The allocator as the engine uses it: one call at a time (the engine is
\* single-threaded), through any of the engine instances.
SeqAllocate(e, numElements, dataType, device) ==
    /\ \A o \in Engines : alloc[o].pc = "idle"
    /\ AllocateTensorInArena(e, numElements, dataType, device)

ArenaSeqNext ==
    \E e \in Engines :
        \/ \E numElements \in RequestSizes : \E dataType \in DataTypes : \E device \in Devices :
              SeqAllocate(e, numElements, dataType, device)
        \/ CheckCapacity(e)
        \/ NewArena(e)
        \/ ResetUsed(e)
        \/ ReadOffset(e)
        \/ SliceView(e)
        \/ AdvanceUsed(e)
        \/ ReturnRegion(e)

ArenaSeqSpec == ArenaInit /\ [][ArenaSeqNext]_vars_

\* The scheduler on its own: functions whose inputs are all leaves become
\* ready one after the other (as the traversal finds them) and pop_best takes
\* batches out. Splice takes any number of operands.
SchedOps == {"Tanh", "Plus", "Splice", "Pass", "NoOp"}

SchedLeaves == {3, 5}

OperandLists(op) ==
    IF op = "Splice"
    THEN UNION {[1..n -> SchedLeaves] : n \in 1..MaxSpliceInputs}
    ELSE {x \in [1..Arity(op) -> SchedLeaves] :
             WellTyped(op, [i \in 1..Arity(op) |-> vars[x[i]].shape])}

\* shape inference of Splice along axis 0 for any number of operands
RECURSIVE SpliceShape(_, _)
SpliceShape(inShapes, k) ==
    IF k > Len(inShapes) THEN <<0>>
    ELSE <<inShapes[k][1] + SpliceShape(inShapes, k + 1)[1]>>

\* a new function on leaves: the traversal sets m_pendingInputs to 0, finds
\* no input to wait for and schedules it
ScheduleReady(op, inputs) ==
    /\ Len(funcs) < MaxScheduled
    /\ LET shapes == [i \in 1..Len(inputs) |-> vars[inputs[i]].shape]
           g == RawPrimitiveFunction([v |-> vars, f |-> funcs], op, inputs,
                    IF op = "Splice" THEN SpliceShape(shapes, 1)
                    ELSE OutputShape(op, shapes, UserAttributes(op)),
                    UserAttributes(op))
           f == Len(g.f)
           F == [g.f EXCEPT ![f].pendingInputs = 0]
       IN  /\ vars' = g.v
           /\ funcs' = F
           /\ sched' = Schedule(F, g.v, sched, f)
    /\ UNCHANGED <<pc, call, result, err, klog, blog, nobj, nops, client, heap, grads,
                   todo, plog, ret, bret, arenaVars_, pastEnd>>

\* pop_best takes the next batch out of the schedule
PopBest ==
    /\ ~SchedEmpty(sched)
    /\ LET p == pop_best(sched)
       IN  /\ sched' = p.s
           /\ blog' = Append(blog, [ops |-> p.ops, queue |-> p.queue,
                                    naive |-> DoNaively(funcs, vars, p.ops)])
    /\ UNCHANGED <<vars, funcs, pc, call, result, err, klog, nobj, nops, client, heap,
                   grads, todo, plog, ret, bret, arenaVars_, pastEnd>>

ScheduleInit == InitEngine(<<>>) /\ InitArena /\ pastEnd \in BOOLEAN

ScheduleNext ==
    \/ \E op \in SchedOps : \E inputs \in OperandLists(op) : ScheduleReady(op, inputs)
    \/ PopBest

ScheduleSpec == ScheduleInit /\ [][ScheduleNext]_vars_

\* GetValue is synchronous code: while the schedule is not empty the loop takes
\* its next iteration, and when it is empty the call goes on. These are the weak
\* fairness conditions of ExecuteStep and of GetValueReturn, with the enabling
\* condition of each written out (its guard; the step always changes the state).
FairSpec ==
    /\ Spec
    /\ []<>(~(pc = "run" /\ ~SchedEmpty(sched))) \/ []<><<ExecuteStep>>_vars_
    /\ []<>(~(pc = "run" /\ SchedEmpty(sched))) \/ []<><<GetValueReturn>>_vars_

-----------------------------------------------------------------------------
(* ===== properties ===== *)

Range(s) == {s[k] : k \in 1..Len(s)}

\* the functions the batches of the current pass executed
Executed == UNION {Range(blog[k].ops) : k \in 1..Len(blog)}

\* the functions waiting on the regular queue
RegularReady == UNION {Range(sched.regularOps[k]) : k \in 1..Len(sched.regularOps)}

BucketsOf(f) == {k \in 1..Len(sched.regularOps) : f \in Range(sched.regularOps[k])}

\* a forward call that traversed and executed has returned normally
ForwardReturned == pc = "idle" /\ call.kind = "forward"

\* C1: when forward(v) is called in a clean state (every Function idle, every
\* consumer list empty) and returns normally, every Function is idle again,
\* every consumer list is empty and the scheduler is empty
C1_ForwardLeavesClean ==
    (ForwardReturned /\ call.clean) => Clean(vars, funcs) /\ SchedEmpty(sched)

\* a clean forward call that fused a batch and synthesized functions returned
C1_Witness ==
    /\ ForwardReturned /\ call.clean /\ ~call.hadValue
    /\ \E k \in 1..Len(blog) : ~blog[k].naive
    /\ \E f \in 1..Len(funcs) : funcs[f].output \notin client

\* C2: when backward(root, grads) returns normally, every Function has
\* m_pendingInputs = -1 and every Variable has an empty consumer list
C2_BackwardLeavesClean ==
    (pc = "idle" /\ call.kind = "backward" /\ call.clean) => Clean(vars, funcs)

\* C3: pop_best returns the whole view queue if a view op is ready, otherwise
\* the regular bucket holding the most ops, and the barrier ops only when the
\* view queue and every regular bucket are empty; no barrier op is executed
\* while a view op or a regular op is ready
C3_Priority ==
    [][Len(blog') = Len(blog) + 1 =>
          LET batch == blog'[Len(blog')].ops
          IN  /\ sched.viewOps # <<>> => batch = sched.viewOps
              /\ sched.viewOps = <<>> /\ sched.regularOps # <<>> =>
                    /\ batch \in Range(sched.regularOps)
                    /\ \A k \in 1..Len(sched.regularOps) :
                          Len(sched.regularOps[k]) <= Len(batch)
              /\ sched.viewOps = <<>> /\ sched.regularOps = <<>> =>
                    batch = sched.barrierOps
              /\ (\E k \in 1..Len(batch) : funcs[batch[k]].op = BarrierOp) =>
                    sched.viewOps = <<>> /\ sched.regularOps = <<>>
              /\ batch # <<>>]_vars_

\* view, regular and barrier ops that were ready together (all their inputs
\* are leaves) were executed in this order
C3_Witness ==
    \E i, j, k \in 1..Len(blog) :
        /\ i < j /\ j < k
        /\ blog[i].queue = "view" /\ blog[j].queue = "regular" /\ blog[k].queue = "barrier"
        /\ \A n \in {i, j, k} : \A f \in Range(blog[n].ops) :
              \A a \in 1..Len(funcs[f].inputs) : vars[funcs[f].inputs[a]].owner = 0

\* same op code, same input shapes, equal attributes
SameSignature(a, b) ==
    /\ funcs[a].op = funcs[b].op
    /\ Len(funcs[a].inputs) = Len(funcs[b].inputs)
    /\ \A i \in 1..Len(funcs[a].inputs) :
          vars[funcs[a].inputs[i]].shape = vars[funcs[b].inputs[i]].shape
    /\ funcs[a].attributes = funcs[b].attributes

\* the kernel invocations of the batch executed last
KernelsOfLast(roles, pos) ==
    {k \in 1..Len(klog) : /\ klog[k].batch = Len(blog)
                          /\ klog[k].role \in roles
                          /\ klog[k].pos = pos}

\* the operands at position i of the batch executed last need no copy: all the
\* same, or the consecutive slices that make up the whole of one fused output
NoCopyNeeded(ops, i) ==
    LET spliceInputs == GatherInputs(funcs, ops, i)
        from == vars[spliceInputs[1]].lazyIndex
    IN  \/ AllSame(vars, spliceInputs)
        \/ /\ AllConsecutiveSlices(vars, spliceInputs)
           /\ from.idx = 0
           /\ Len(ops) = LastDim(vars[funcs[from.f].output].shape)

\* one kernel invocation of the op for the whole batch executed last, and at
\* most one Gather/Slice per input position, none where no copy is needed
OneKernelForLast ==
    LET ops == blog[Len(blog)].ops
    IN  /\ Cardinality(KernelsOfLast({"op"}, 0)) = 1
        /\ \A i \in 1..Len(funcs[ops[1]].inputs) :
              Cardinality(KernelsOfLast({"gather", "slice"}, i))
                  <= IF NoCopyNeeded(ops, i) THEN 0 ELSE 1

LastIsRegularBatch ==
    /\ blog # <<>>
    /\ blog[Len(blog)].queue = "regular"
    /\ Len(blog[Len(blog)].ops) >= 2

\* C4 as stated: N >= 2 regular ops with the same op code, input shapes and
\* attributes that are ready together are one bucket, executed by exactly one
\* kernel invocation of the op plus at most one Gather/Slice per input position
C4_Original ==
    pc = "run" =>
        /\ \A a, b \in RegularReady : SameSignature(a, b) => BucketsOf(a) = BucketsOf(b)
        /\ LastIsRegularBatch => OneKernelForLast

\* the batch executed last is one the engine computes op by op: a Splice, or a
\* Times whose first op has a sparse second operand
ComputedOpByOp ==
    LET f0 == funcs[blog[Len(blog)].ops[1]]
    IN  \/ f0.op = "Splice"
        \/ f0.op = "Times" /\ vars[f0.inputs[2]].value.sparse

\* C4, amended: N >= 2 regular ops with the same op code, input shapes and
\* attributes -- and, for Times, the very same weight variable -- that are
\* ready together are one bucket; unless the op is Splice, or Times with a
\* sparse second operand of the first op, the bucket is executed by exactly one
\* kernel invocation of the op plus at most one Gather/Slice per input
\* position, none for a position that is AllSame or full-range consecutive
C4_BatchMerging ==
    pc = "run" =>
        /\ \A a, b \in RegularReady :
              /\ SameSignature(a, b)
              /\ funcs[a].op = "Times" => funcs[a].inputs[1] = funcs[b].inputs[1]
              => BucketsOf(a) = BucketsOf(b)
        /\ LastIsRegularBatch /\ ~ComputedOpByOp => OneKernelForLast

\* a batch of two or more Times was executed by one kernel on a gathered operand
C4_Witness ==
    /\ pc = "run" /\ LastIsRegularBatch /\ ~ComputedOpByOp
    /\ funcs[blog[Len(blog)].ops[1]].op = "Times"
    /\ Cardinality(KernelsOfLast({"gather"}, 2)) = 1
    /\ Cardinality(KernelsOfLast({"op"}, 0)) = 1

\* C5: two Times are in the same bucket, and fused, only if their input 0 is
\* the very same variable; Times with distinct weights of equal shape are in
\* separate buckets
C5_SharedWeight ==
    /\ \A k \in 1..Len(sched.regularOps) : \A a, b \in Range(sched.regularOps[k]) :
          funcs[a].op = "Times" => funcs[a].inputs[1] = funcs[b].inputs[1]
    /\ \A k \in 1..Len(blog) : \A a, b \in Range(blog[k].ops) :
          funcs[a].op = "Times" => funcs[a].inputs[1] = funcs[b].inputs[1]
    /\ \A a, b \in RegularReady :
          /\ funcs[a].op = "Times" /\ funcs[b].op = "Times"
          /\ funcs[a].inputs[1] # funcs[b].inputs[1]
          => BucketsOf(a) \cap BucketsOf(b) = {}

\* Times with distinct weights of equal shape wait in separate buckets, one of
\* them holding two Times of the same weight
C5_Witness ==
    \E a, b, c \in RegularReady :
        /\ funcs[a].op = "Times" /\ funcs[b].op = "Times" /\ funcs[c].op = "Times"
        /\ funcs[a].inputs[1] # funcs[b].inputs[1]
        /\ vars[funcs[a].inputs[1]].shape = vars[funcs[b].inputs[1]].shape
        /\ SameSignature(a, b)
        /\ BucketsOf(a) # BucketsOf(b)
        /\ b # c /\ BucketsOf(b) = BucketsOf(c)

RECURSIVE Reference(_)
\* the value of executing every op individually: the op's kernel applied to the
\* reference values of its own inputs
Reference(v) ==
    IF vars[v].owner = 0 THEN LeafTerm(v)
    ELSE LET f == funcs[vars[v].owner]
         IN  ComputeKnowableValue(f.op,
                 [i \in 1..Len(f.inputs) |-> Reference(f.inputs[i])],
                 [i \in 1..Len(f.inputs) |-> vars[f.inputs[i]].shape],
                 f.attributes, vars[v].shape)

\* the value that lazily resolving v yields
Resolved(v) == LazilyIndexedValue(Engine, v).v[v].value.t

\* C7: the value obtained by lazily resolving the output of each original op
\* that was executed equals the value of applying the op's kernel to the op's
\* own input values
C7_ForwardEquivalence ==
    pc # "failed" =>
        \A v \in client :
            (vars[v].owner # 0 /\ (HasValue(vars[v]) \/ HasLazyIndex(vars[v])))
            => Resolved(v) = Reference(v)

\* a forward pass returned in which an output is the second slice of a fused
\* output that was itself computed from a Slice view
C7_Witness ==
    /\ ForwardReturned /\ ~call.hadValue
    /\ \E v \in client : HasLazyIndex(vars[v]) /\ vars[v].lazyIndex.idx = 1
                         /\ Resolved(v) = Reference(v)
    /\ \E k \in 1..Len(klog) : klog[k].role = "slice"

\* the consumer edges of u that contribute to cell c of u's gradient
EdgesInto(u, c) ==
    {e \in Range(vars[u].consumers) :
        LET w == funcs[e[1]].inputs[e[2] + 1]
        IN  \/ w = u
            \/ /\ HasLazyIndex(vars[w])
               /\ funcs[vars[w].lazyIndex.f].output = u
               /\ vars[w].lazyIndex.idx \in {SIZE_MAX, c - 1}}

\* cell c of a gradient buffer holds exactly one contribution per given edge
\* and nothing else
HoldsExactly(cell, edges) ==
    /\ ~cell.garb
    /\ Range(cell.sum) = {[f |-> e[1], i |-> e[2]] : e \in edges}
    /\ Len(cell.sum) = Cardinality(edges)

RECURSIVE UpFrom(_)
\* the variables reached from the set S by following consumer edges towards
\* the root
UpFrom(S) ==
    LET T == S \cup {funcs[e[1]].output : e \in UNION {Range(vars[u].consumers) : u \in S}}
    IN  IF T = S THEN S ELSE UpFrom(T)

\* the requested parameters the root depends on and the variables between
\* them and the root, the root excluded
Between ==
    {u \in UpFrom({p \in DOMAIN grads : vars[p].consumers # <<>>}) :
        vars[u].consumers # <<>>}

\* C8: after a backward call started in a clean state, the gradient of every
\* requested parameter the root depends on, and of every variable between it
\* and the root, is the sum of exactly one contribution per consumer edge:
\* none twice, none missed, no prior or uninitialised content
C8_GradientEquivalence ==
    (pc = "aggregate" /\ todo = {} /\ call.clean) =>
        \A u \in Between :
            /\ HasGradient(vars[u])
            /\ \A c \in Covered(heap, vars[u].gradient) :
                  HoldsExactly(heap[vars[u].gradient.buf][c], EdgesInto(u, c))

\* a backward call is about to return gradients for two parameters, one of
\* them in a buffer of the caller, with a fused output on the way whose cells
\* received different contributions
C8_Witness ==
    /\ pc = "aggregate" /\ todo = {} /\ call.clean
    /\ Cardinality(DOMAIN grads) = 2
    /\ \E p \in DOMAIN grads : grads[p].buf # 0
    /\ \E u \in Between :
          /\ u \notin client /\ HasGradient(vars[u])
          /\ EdgesInto(u, 1) # EdgesInto(u, 2)

\* the input is available to the current pass
Available(v) == HasValue(vars[v]) \/ vars[v].owner \in Executed

\* C9: a function is on a scheduler queue, and so executed, only when every
\* one of its inputs is available: it has a value or the op producing it was
\* executed before
C9_TopologicalOrder ==
    pc = "run" =>
        \A f \in Range(sched.viewOps) \cup RegularReady \cup Range(sched.barrierOps) :
            \A i \in 1..Len(funcs[f].inputs) :
                /\ Available(funcs[f].inputs[i])
                /\ HasValue(vars[funcs[f].inputs[i]]) \/ HasLazyIndex(vars[funcs[f].inputs[i]])

\* a function waits on a queue whose input was produced by a batch of this pass
C9_Witness ==
    /\ pc = "run"
    /\ \E f \in RegularReady : \E i \in 1..Len(funcs[f].inputs) :
          /\ ~HasValue(vars[funcs[f].inputs[i]])
          /\ vars[funcs[f].inputs[i]].owner \in Executed

RECURSIVE SumLen(_, _)
SumLen(batches, k) ==
    IF k > Len(batches) THEN 0 ELSE Len(batches[k].ops) + SumLen(batches, k + 1)

\* the loop of GetValue has ended
LoopEnded == pc = "run" /\ SchedEmpty(sched)

\* C10: the loop 'while the schedule is not empty: pop_best, execute'
\* terminates, and when it ends every function that was traversed has been
\* executed exactly once and none is left waiting with m_pendingInputs > 0
C10_ForwardCompletion ==
    /\ [](LoopEnded =>
            /\ Executed = call.traversed
            /\ SumLen(blog, 1) = Cardinality(Executed)
            /\ \A f \in 1..Len(funcs) : funcs[f].pendingInputs <= 0)
    /\ [](pc = "run" => <>(pc # "run"))

\* the loop ended after six traversed functions were executed in four batches
C10_Witness ==
    /\ LoopEnded
    /\ Cardinality(call.traversed) = 6
    /\ Len(blog) = 4

RECURSIVE DependsOnUnbound(_)
\* v has no value and the traversal from v through value-less variables
\* reaches an Input or Placeholder that has no value
DependsOnUnbound(v) ==
    /\ ~HasValue(vars[v])
    /\ \/ vars[v].kind \in {"Input", "Placeholder"}
       \/ /\ vars[v].owner # 0
          /\ \E i \in 1..Len(funcs[vars[v].owner].inputs) :
                DependsOnUnbound(funcs[vars[v].owner].inputs[i])

\* C11: forward(v) fails with DependsOnUnboundInput exactly when v has no value
\* and the traversal from v through value-less variables reaches an Input or
\* Placeholder without value (a bound one never makes the pass fail); the
\* error arises in the traversal, never later in the pass
C11_UnboundInput ==
    [][/\ (pc = "idle" /\ call'.kind = "forward" /\ nops' = nops + 1)
            => ((pc' = "failed" /\ err' = "DependsOnUnboundInput")
                  <=> DependsOnUnbound(call'.root))
       /\ (pc # "idle" /\ err' = "DependsOnUnboundInput")
            => err = "DependsOnUnboundInput"]_vars_

\* a forward call failed on an unbound Input after it had traversed, and
\* marked, a function of another branch
C11_Witness ==
    /\ pc = "failed" /\ call.kind = "forward" /\ err = "DependsOnUnboundInput"
    /\ \E f \in 1..Len(funcs) : funcs[f].pendingInputs >= 0

RECURSIVE DependsOn(_, _)
\* p is v or an ancestor of v in the graph
DependsOn(v, p) ==
    \/ v = p
    \/ /\ vars[v].owner # 0
       /\ \E i \in 1..Len(funcs[vars[v].owner].inputs) :
             DependsOn(funcs[vars[v].owner].inputs[i], p)

\* the keys of 'gradients' that are not ancestors of the root
NotAncestors == {p \in DOMAIN grads : ~DependsOn(call.root, p)}

\* C12: a backward call with a key that is not an ancestor of the root does not
\* return normally; it fails, with NotAConsumer
C12_NotAConsumer ==
    (call.kind = "backward" /\ NotAncestors # {}) =>
        /\ pc # "idle"
        /\ pc = "failed" => err = "NotAConsumer"

\* C13: a backward call on a root that needs no gradient fails at once, with
\* GradientNotAllowed
C13_GradientNotAllowed ==
    (call.kind = "backward" /\ ~vars[call.root].needsGradient) =>
        pc = "failed" /\ err = "GradientNotAllowed"

\* Backward returns for key p what the caller is promised: the tensor the
\* caller supplied, zeroed and then holding exactly the contributions of p's
\* consumer edges, each written with beta = 1; or, for a null entry, a tensor
\* the engine allocated
KeyServed(p) ==
    IF grads[p].buf # 0
    THEN /\ grads'[p] = grads[p]
         /\ \A c \in Covered(heap, grads[p]) :
               HoldsExactly(heap[grads[p].buf][c], EdgesInto(p, c))
         /\ \A k \in 1..Len(plog) :
               (plog[k].f # 0 /\ plog[k].into.buf = grads[p].buf) => plog[k].beta = 1
    ELSE /\ grads'[p].buf # 0
         /\ \A q \in DOMAIN grads : grads'[p].buf # grads[q].buf

\* C14: when a backward call returns normally, every key of 'gradients' is
\* served: a supplied tensor is returned itself, zeroed and filled; a null
\* entry is replaced by a tensor allocated by the engine
C14_ReturnedGradients ==
    [][(pc = "aggregate" /\ pc' = "idle") =>
          \A p \in DOMAIN grads : KeyServed(p)]_vars_

\* the backward call in progress repeats the one that returned last: the same
\* root, the same parameters
RepeatsBackward ==
    /\ call.kind = "backward" /\ pc = "aggregate"
    /\ bret.root = call.root
    /\ DOMAIN bret.content = DOMAIN grads

\* C15: a second backward call for the same root and the same parameters is a
\* new computation: it succeeds and returns the same gradients as the first
C15_BackwardTwice ==
    [][RepeatsBackward =>
          /\ pc' # "failed"
          /\ pc' = "idle" => bret'.content = bret.content]_vars_

\* the per-element variables that are lazy slices of the fused output u
SlicesOf(u) ==
    {w \in 1..Len(vars) : /\ HasLazyIndex(vars[w])
                          /\ funcs[vars[w].lazyIndex.f].output = u
                          /\ vars[w].lazyIndex.idx # SIZE_MAX}

\* the fused outputs on the way from a requested parameter to the root whose
\* slices are consumed by two or more downstream ops
SlicedTwice ==
    {u \in Between :
        Cardinality({e \in Range(vars[u].consumers) :
                        funcs[e[1]].inputs[e[2] + 1] \in SlicesOf(u)}) >= 2}

\* the entries of plog that write into buffer buf
WritesInto(buf) == {k \in 1..Len(plog) : plog[k].into.buf = buf}

SharedWeightScenario ==
    /\ call.kind = "backward" /\ call.clean /\ pc = "aggregate" /\ todo = {}
    /\ LET out == funcs[vars[call.root].owner]
       IN  /\ out.op = "Plus"
           /\ \A i \in 1..2 : /\ vars[out.inputs[i]].owner \in call.traversed
                               /\ funcs[vars[out.inputs[i]].owner].op = "Times"
           /\ LET h1 == funcs[vars[out.inputs[1]].owner]
                  h2 == funcs[vars[out.inputs[2]].owner]
              IN  /\ h1.inputs[1] = h2.inputs[1]
                  /\ h1.inputs[2] # h2.inputs[2]
                  /\ vars[h1.inputs[2]].owner = 0 /\ vars[h2.inputs[2]].owner = 0
                  /\ h1.inputs[1] \in DOMAIN grads

\* the weight of the scenario and the two operands
ScenarioW == funcs[vars[funcs[vars[call.root].owner].inputs[1]].owner].inputs[1]

ScenarioOperands ==
    {funcs[vars[funcs[vars[call.root].owner].inputs[i]].owner].inputs[2] : i \in 1..2}

\* one Times kernel in the forward pass, one reverse-mode Times call into the
\* gradient of W in the backward pass
OneTimesEachWay ==
    /\ Cardinality({k \in 1..Len(klog) : klog[k].op = "Times"}) = 1
    /\ Cardinality({k \in 1..Len(plog) :
            /\ plog[k].f # 0 /\ funcs[plog[k].f].op = "Times" /\ plog[k].i = 0
            /\ plog[k].into.buf = vars[ScenarioW].gradient.buf}) = 1

\* C17 as stated: in the shared-weight scenario the forward pass issues
\* exactly one Times kernel invocation and the backward pass exactly one
\* reverse-mode Times call into the gradient of W
C17_Original == SharedWeightScenario => OneTimesEachWay

\* C17, amended: the same, provided neither a nor b is a sparse tensor
C17_SharedWeightScenario ==
    (SharedWeightScenario /\ \A x \in ScenarioOperands : ~vars[x].value.sparse)
        => OneTimesEachWay

\* the scenario with dense operands: one Times kernel on W and the gathered
\* operands, one reverse-mode call, by the fused Times
C17_Witness ==
    /\ SharedWeightScenario /\ \A x \in ScenarioOperands : ~vars[x].value.sparse
    /\ \E k \in 1..Len(klog) : klog[k].role = "gather" /\ klog[k].pos = 2
    /\ \E k \in 1..Len(plog) : /\ plog[k].f > 0 /\ funcs[plog[k].f].output \notin client
                                /\ funcs[plog[k].f].op = "Times" /\ plog[k].i = 0

\* the batch executed last was fused
LastIsFused == pc = "run" /\ blog # <<>> /\ ~blog[Len(blog)].naive

\* the operands at position i of the batch executed last are, in batch order,
\* the lazy slices (P, base + j), j = 0..N-1, of one producer P
SlicesInOrder(i) ==
    LET ops == blog[Len(blog)].ops
        first == vars[funcs[ops[1]].inputs[i]].lazyIndex
    IN  /\ first.f # 0 /\ first.idx # SIZE_MAX
        /\ \A j \in 1..Len(ops) :
              vars[funcs[ops[j]].inputs[i]].lazyIndex = [f |-> first.f, idx |-> first.idx + j - 1]

\* the input at position i of the fused op of the batch executed last
FusedInput(i) ==
    LET k == CHOOSE k \in KernelsOfLast({"op"}, 0) : TRUE
    IN  funcs[klog[k].f].inputs[i]

\* C18: when the operands of a fused batch at an input position are, in batch
\* order, consecutive lazy slices of one producer P from index base on, no
\* gather kernel is issued for the position; the fused input is P's output
\* itself if the slices are all of it, and otherwise a free Slice view of P's
\* output with beginIndex = base and endIndex = base + N
C18_ConsecutiveSlices ==
    LastIsFused =>
        \A i \in 1..Len(funcs[blog[Len(blog)].ops[1]].inputs) :
            SlicesInOrder(i) =>
                LET ops == blog[Len(blog)].ops
                    N == Len(ops)
                    first == vars[funcs[ops[1]].inputs[i]].lazyIndex
                    P == funcs[first.f].output
                    in == FusedInput(i)
                IN  /\ KernelsOfLast({"gather"}, i) = {}
                    /\ IF first.idx = 0 /\ N = LastDim(vars[P].shape)
                       THEN in = P /\ KernelsOfLast({"slice"}, i) = {}
                       ELSE /\ vars[in].owner # 0
                            /\ funcs[vars[in].owner].op = "Slice"
                            /\ funcs[vars[in].owner].inputs = <<P>>
                            /\ Attr(funcs[vars[in].owner].attributes, "axis")
                                  = Rank(vars[P].shape) - 1
                            /\ Attr(funcs[vars[in].owner].attributes, "beginIndex") = first.idx
                            /\ Attr(funcs[vars[in].owner].attributes, "endIndex")
                                  = first.idx + N
                            /\ \A k \in KernelsOfLast({"slice"}, i) :
                                  klog[k].f = vars[in].owner /\ klog[k].free
                            /\ Cardinality(KernelsOfLast({"slice"}, i)) = 1

\* a fused batch took a Slice view of a sub-range that does not start at 0
C18_Witness ==
    /\ LastIsFused
    /\ SlicesInOrder(1)
    /\ vars[funcs[blog[Len(blog)].ops[1]].inputs[1]].lazyIndex.idx = 1
    /\ Cardinality(KernelsOfLast({"slice"}, 1)) = 1

\* the ops waiting in the three queues of the scheduler
Scheduled ==
    Range(sched.viewOps) \cup Range(sched.barrierOps)
        \cup UNION {Range(sched.regularOps[k]) : k \in 1..Len(sched.regularOps)}

ArenaOf(e) == <<m_currentArena, m_currentArenaUsed>>

\* two returned ranges of one arena block have an element in common
Overlap(a, b) ==
    /\ a.kind = "arena" /\ b.kind = "arena"
    /\ a.block = b.block
    /\ a.start < b.start + b.extent
    /\ b.start < a.start + a.extent

\* C20: the arena state (block and used offset) belongs to one engine
\* instance: an allocation made through one instance never changes the block
\* or the offset another instance uses, and engine instances that run
\* concurrently never receive overlapping ranges of one arena block
C20_ArenaPerEngine ==
    [][/\ \A e \in Engines : alloc'[e] # alloc[e] =>
             \A o \in Engines \ {e} : ArenaOf(o)' = ArenaOf(o)
       /\ \A i, j \in 1..Len(alog') :
             alog'[i].engine # alog'[j].engine => ~Overlap(alog'[i], alog'[j])]_vars_

\* the ranges of arena blocks among the first k results, in the order returned
ArenaEntries(k) == SelectSeq(SubSeq(alog, 1, k), LAMBDA r : r.kind = "arena")

\* the block and the used offset that the first k results leave behind
BlockAfter(k) ==
    LET a == ArenaEntries(k) IN IF a = <<>> THEN 0 ELSE a[Len(a)].block

UsedAfter(k) ==
    LET a == ArenaEntries(k)
    IN  IF a = <<>> THEN 0 ELSE a[Len(a)].start + a[Len(a)].extent

\* C21: with the calls made one after the other, 0 <= used <= ARENASIZE; a
\* request of numel <= ARENASIZE receives [used, used + numel) of the current
\* block and advances used by numel, after a switch to a fresh block with
\* used = 0 exactly when there is no block or numel exceeds the remaining
\* capacity; ranges of one block never overlap; a request of
\* numel > ARENASIZE receives a standalone tensor and leaves block and used
\* as they were
C21_ArenaPolicy ==
    /\ m_currentArenaUsed >= 0 /\ m_currentArenaUsed <= ARENASIZE
    /\ (\A e \in Engines : alloc[e].pc = "idle") =>
          /\ m_currentArena = BlockAfter(Len(alog))
          /\ m_currentArenaUsed = UsedAfter(Len(alog))
    /\ \A k \in 1..Len(alog) :
          LET r == alog[k]
              block == BlockAfter(k - 1)
              used == UsedAfter(k - 1)
          IN  /\ r.kind # "throw"
              /\ r.kind = "standalone" <=> r.extent > ARENASIZE
              /\ r.kind = "arena" =>
                    IF block = 0 \/ r.extent > ARENASIZE - used
                    THEN /\ r.start = 0
                         /\ \A i \in 1..(k - 1) : alog[i].block # r.block
                    ELSE r.block = block /\ r.start = used
    /\ \A i, j \in 1..Len(alog) : i # j => ~Overlap(alog[i], alog[j])

\* two requests filled a block and the next request got the start of a fresh
\* block
C21_Witness ==
    \E i, j, k \in 1..Len(alog) :
        /\ i < j /\ j < k
        /\ alog[i].kind = "arena" /\ alog[j].kind = "arena" /\ alog[k].kind = "arena"
        /\ alog[j].block = alog[i].block
        /\ alog[j].start = alog[i].extent
        /\ alog[j].start + alog[j].extent = ARENASIZE
        /\ alog[k].block # alog[j].block /\ alog[k].start = 0
        /\ \A e \in Engines : alloc[e].pc = "idle"

\* the ops waiting in the three queues of schedule s
OpsOf(s) ==
    Range(s.viewOps) \cup Range(s.barrierOps)
        \cup UNION {Range(s.regularOps[k]) : k \in 1..Len(s.regularOps)}

\* C22: whenever the scheduler is not empty, pop_best returns a non-empty
\* batch and removes exactly the returned ops from the scheduler; a batch from
\* the regular queue is homogeneous (every two of its ops are batchable), and
\* among the regular buckets of equal maximum size the one created first (the
\* first of the list) is returned; the batch is the one executed
C22_PopBest ==
    [][~SchedEmpty(sched) =>
          LET p == pop_best(sched)
          IN  /\ p.ops # <<>>
              /\ OpsOf(p.s) = OpsOf(sched) \ Range(p.ops)
              /\ Cardinality(Range(p.ops)) = Len(p.ops)
              /\ p.queue = "view" => p.s = [sched EXCEPT !.viewOps = <<>>]
              /\ p.queue = "barrier" => p.s = [sched EXCEPT !.barrierOps = <<>>]
              /\ p.queue = "regular" =>
                    /\ \A a, b \in Range(p.ops) : AreBatchable(funcs, vars, a, b)
                    /\ \E k \in 1..Len(sched.regularOps) :
                          /\ p.ops = sched.regularOps[k]
                          /\ \A j \in 1..Len(sched.regularOps) :
                                /\ Len(sched.regularOps[j]) <= Len(p.ops)
                                /\ j < k => Len(sched.regularOps[j]) < Len(p.ops)
                          /\ p.s.regularOps = RemoveAt(sched.regularOps, k)
                          /\ p.s.viewOps = sched.viewOps
                          /\ p.s.barrierOps = sched.barrierOps
              /\ Len(blog') = Len(blog) + 1 =>
                    /\ blog'[Len(blog')].ops = p.ops
                    /\ OpsOf(p.s) \subseteq OpsOf(sched')
                    /\ OpsOf(sched') \cap Range(p.ops) = {}]_vars_

\* C23: two ops with the same op code and different numbers of inputs are not
\* batchable: AreBatchable is false for them, and Schedule places them in
\* different regular buckets
C23_DifferentArity ==
    \A a, b \in 1..Len(funcs) :
        (funcs[a].op = funcs[b].op /\ Len(funcs[a].inputs) # Len(funcs[b].inputs)
           /\ ~IsViewOp(funcs[a].op)) =>
            /\ ~AreBatchable(funcs, vars, a, b)
            /\ BucketsOf(a) \cap BucketsOf(b) = {}

\* how often f occurs in the queues of schedule s
Occurrences(s, f) ==
    LET all == s.viewOps \o s.barrierOps
    IN  Cardinality({k \in 1..Len(all) : all[k] = f})
        + Cardinality({<<b, k>> \in (1..Len(s.regularOps)) \X (1..Len(funcs)) :
                          k <= Len(s.regularOps[b]) /\ s.regularOps[b][k] = f})

\* C24: NotifyInputAvailable(f) with m_pendingInputs >= 1 decrements the
\* counter by exactly one and schedules f exactly when the result is 0; with
\* m_pendingInputs <= 0 it fails (InvariantViolation), f is not scheduled and
\* its counter is not changed
C24_NotifyInputAvailable ==
    err = "" =>
        \A f \in 1..Len(funcs) :
            LET st == NotifyInputAvailable(Engine, f)
                n == funcs[f].pendingInputs
            IN  IF n >= 1
                THEN /\ st.e = ""
                     /\ st.f = [funcs EXCEPT ![f].pendingInputs = n - 1]
                     /\ st.v = vars
                     /\ Occurrences(st.s, f) = Occurrences(sched, f) + (IF n = 1 THEN 1 ELSE 0)
                     /\ \A g \in 1..Len(funcs) :
                           g # f => Occurrences(st.s, g) = Occurrences(sched, g)
                ELSE /\ st.e = "InvariantViolation"
                     /\ st.f = funcs /\ st.s = sched /\ st.v = vars

\* a pass is running in which one function waits for two inputs, one for its
\* last input, and one is ready (its counter is 0)
C24_Witness ==
    /\ pc = "run" /\ err = ""
    /\ \E f, g, h \in 1..Len(funcs) :
          /\ funcs[f].pendingInputs = 2
          /\ funcs[g].pendingInputs = 1
          /\ funcs[h].pendingInputs = 0
          /\ NotifyInputAvailable(Engine, g).s # sched

\* C25: a popped batch is executed naively (one kernel invocation per op, the
\* value of each output materialized directly, no function synthesized, no
\* lazy index set) exactly when its op is a view op, its op is Splice, its op
\* is Times and the second operand of its first op is sparse, or it has one op;
\* in every other case it is fused (one kernel invocation of a synthesized
\* function, every output a lazy view into it)
C25_NaiveMode ==
    [][(Len(blog') = Len(blog) + 1 /\ pc' # "failed") =>
          LET ops == blog'[Len(blog')].ops
              f0 == funcs[ops[1]]
              K == {k \in 1..Len(klog') : klog'[k].batch = Len(blog')}
              Kop == {k \in K : klog'[k].role = "op"}
              out(j) == funcs[ops[j]].output
          IN  IF \/ IsViewOp(f0.op)
                 \/ f0.op = "Splice"
                 \/ f0.op = "Times" /\ vars[f0.inputs[2]].value.sparse
                 \/ Len(ops) = 1
              THEN /\ Len(funcs') = Len(funcs)
                   /\ K = Kop
                   /\ Cardinality(K) = Len(ops)
                   /\ \A j \in 1..Len(ops) :
                         /\ \E k \in K : klog'[k].f = ops[j]
                         /\ HasValue(vars'[out(j)])
                         /\ vars'[out(j)].lazyIndex = vars[out(j)].lazyIndex
              ELSE /\ Len(funcs') > Len(funcs)
                   /\ Cardinality(Kop) = 1
                   /\ \A k \in Kop : klog'[k].f > Len(funcs)
                   /\ \A j \in 1..Len(ops) :
                         /\ vars'[out(j)].lazyIndex.f > Len(funcs)
                         /\ vars'[out(j)].value = vars[out(j)].value]_vars_

\* a bucket of two Times whose first op has a sparse second operand was
\* executed by two kernel invocations, without a synthesized function
C25_Witness ==
    /\ pc = "run" /\ blog # <<>>
    /\ Len(blog[Len(blog)].ops) = 2
    /\ funcs[blog[Len(blog)].ops[1]].op = "Times"
    /\ vars[funcs[blog[Len(blog)].ops[1]].inputs[2]].value.sparse
    /\ Cardinality({k \in 1..Len(klog) : klog[k].batch = Len(blog)}) = 2
    /\ \A f \in 1..Len(funcs) : funcs[f].output \in client

\* operands a and b are the same variable or the same lazy view
SameOperand(a, b) ==
    a = b \/ (HasLazyIndex(vars[a]) /\ vars[a].lazyIndex = vars[b].lazyIndex)

\* the input positions of a batch that are batched (all but the weight of Times)
BatchedPositions(ops) ==
    {i \in 1..Len(funcs[ops[1]].inputs) : ~(funcs[ops[1]].op = "Times" /\ i = 1)}

\* at least one batched input position holds different operands
ActuallyBatched(ops) ==
    \E i \in BatchedPositions(ops) : \E j \in 1..Len(ops) :
        ~SameOperand(funcs[ops[1]].inputs[i], funcs[ops[j]].inputs[i])

\* the step executes a batch in fused mode, without error
FusedStep ==
    /\ Len(blog') = Len(blog) + 1 /\ pc' # "failed"
    /\ LET ops == blog'[Len(blog')].ops
           f0 == funcs[ops[1]]
       IN  ~(\/ IsViewOp(f0.op)
             \/ f0.op = "Splice"
             \/ f0.op = "Times" /\ vars[f0.inputs[2]].value.sparse
             \/ Len(ops) = 1)

\* all N outputs of the batch reference one new function B, the j-th in batch
\* order with index j, j = 0..N-1
ImplantedInOrder(ops) ==
    \E B \in (Len(funcs) + 1)..Len(funcs') :
        /\ funcs'[B].op = funcs[ops[1]].op
        /\ \A j \in 1..Len(ops) :
              vars'[funcs[ops[j]].output].lazyIndex = [f |-> B, idx |-> j - 1]

\* the shape of the output of the function the first op of the batch now
\* references
FusedShape(ops) == vars'[funcs'[vars'[funcs[ops[1]].output].lazyIndex.f].output].shape

\* the largest rank among the batched operands of the first op
MaxOperandRank(ops) ==
    LET f0 == funcs[ops[1]]
    IN  CHOOSE r \in {Rank(vars[f0.inputs[i]].shape) : i \in BatchedPositions(ops)} :
            \A i \in BatchedPositions(ops) : Rank(vars[f0.inputs[i]].shape) <= r

EngineAfter ==
    [v |-> vars', f |-> funcs', s |-> sched', o |-> nobj', k |-> klog', e |-> err',
     g |-> heap', p |-> plog']

\* C27: if at every batched input position all N ops of a fused batch have
\* the same operand (same variable or same lazy view), the kernel of the op is
\* invoked exactly once, on the inputs of the first op and with the unbatched
\* output shape, no Gather/Slice function is synthesized, and every op of the
\* batch gets the lazy index (B, SIZE_MAX), so all N outputs resolve to the
\* very same tensor, the output of B
C27_AllSameFallback ==
    [][(FusedStep /\ ~ActuallyBatched(blog'[Len(blog')].ops)) =>
          LET ops == blog'[Len(blog')].ops
              f0 == funcs[ops[1]]
              B == Len(funcs) + 1
              K == {k \in 1..Len(klog') : klog'[k].batch = Len(blog')}
          IN  /\ Len(funcs') = B
              /\ funcs'[B].op = f0.op
              /\ funcs'[B].inputs = f0.inputs
              /\ funcs'[B].attributes = f0.attributes
              /\ vars'[funcs'[B].output].shape = vars[f0.output].shape
              /\ Cardinality(K) = 1
              /\ \A k \in K : klog'[k].f = B /\ klog'[k].role = "op"
              /\ HasValue(vars'[funcs'[B].output])
              /\ \A j \in 1..Len(ops) :
                    LET out == funcs[ops[j]].output
                    IN  /\ vars'[out].lazyIndex = [f |-> B, idx |-> SIZE_MAX]
                        /\ LazilyIndexedValue(EngineAfter, out).v[out].value
                              = vars'[funcs'[B].output].value]_vars_

\* two Tanh of the same operand were fused without a batch axis: both outputs
\* are views (B, SIZE_MAX) of a function that has the shape of one output
C27_Witness ==
    /\ pc = "run" /\ blog # <<>> /\ ~blog[Len(blog)].naive
    /\ LET ops == blog[Len(blog)].ops
           B == vars[funcs[ops[1]].output].lazyIndex.f
       IN  /\ Len(ops) = 2
           /\ funcs[ops[1]].inputs = funcs[ops[2]].inputs
           /\ vars[funcs[ops[1]].output].lazyIndex = [f |-> B, idx |-> SIZE_MAX]
           /\ vars[funcs[ops[2]].output].lazyIndex = [f |-> B, idx |-> SIZE_MAX]
           /\ vars[funcs[B].output].shape = vars[funcs[ops[1]].output].shape

\* the gradient of a variable can be asked for: it has a gradient, is a view of
\* a fused output, or has the value whose device the new gradient takes
CanEnsureGradient(st, v) ==
    HasGradient(st.v[v]) \/ HasLazyIndex(st.v[v]) \/ HasValue(st.v[v])

\* what C28 says of one call LazilyCreateLazilyIndexedGradient(v) in state st
EnsuresGradient(st, v) ==
    LET r == LazilyCreateLazilyIndexedGradient(st, v)
        new == Len(st.g) + 1
        from == st.f[st.v[v].lazyIndex.f].output
    IN  /\ HasGradient(st.v[v]) => r.beta = 1 /\ r.st = st
        /\ (~HasGradient(st.v[v]) /\ ~HasLazyIndex(st.v[v])) =>
              /\ r.beta = 0
              /\ r.st.v[v].gradient = WholeOf(new)
              /\ Len(r.st.g) = new
        /\ (/\ ~HasGradient(st.v[v]) /\ HasLazyIndex(st.v[v])
            /\ st.v[v].lazyIndex.idx # SIZE_MAX
            /\ ~HasGradient(st.v[from])) =>
              /\ r.beta = 1
              /\ Len(r.st.g) = new
              /\ r.st.v[from].gradient = WholeOf(new)
              /\ r.st.v[v].gradient = [buf |-> new, idx |-> st.v[v].lazyIndex.idx]
              /\ \A c \in 1..Len(r.st.g[new]) :
                    r.st.g[new][c] = [garb |-> FALSE, sum |-> <<>>]
        /\ r.beta = 0 =>
              /\ Len(r.st.g) = new
              /\ r.st.v[v].gradient = WholeOf(new)
              /\ \A c \in 1..Len(r.st.g[new]) : r.st.g[new][c] = FreshCell
        /\ \A b \in 1..Len(st.g) : r.st.g[b] = st.g[b]

\* C28: LazilyCreateLazilyIndexedGradient(v) returns 1 and changes nothing
\* when v has a gradient; for a variable without lazy index and without
\* gradient it allocates a gradient and returns 0; for a lazy slice (a real
\* index) whose producer had no gradient it creates the producer's gradient,
\* zeroes the whole of it and returns 1. Hence a returned 0 means that the
\* gradient of v is a newly created tensor into which nothing has been
\* written. Checked for a call in every state between steps, and for the call
\* that follows it
C28_EnsureGradient ==
    err = "" =>
        \A v \in 1..Len(vars) :
            CanEnsureGradient(Engine, v) =>
                /\ EnsuresGradient(Engine, v)
                /\ LET st == LazilyCreateLazilyIndexedGradient(Engine, v).st
                   IN  \A w \in 1..Len(vars) :
                           CanEnsureGradient(st, w) => EnsuresGradient(st, w)

\* a backward pass is under way in which one variable has its gradient, one
\* is a lazy slice of a fused output that has no gradient yet, and one shares
\* the gradient of a fused output (index SIZE_MAX) that has none yet
C28_Witness ==
    /\ err = "" /\ call.kind = "backward"
    /\ \E v \in 1..Len(vars) : HasGradient(vars[v])
    /\ \E v \in 1..Len(vars) :
          /\ ~HasGradient(vars[v]) /\ HasLazyIndex(vars[v])
          /\ vars[v].lazyIndex.idx # SIZE_MAX
          /\ ~HasGradient(vars[funcs[vars[v].lazyIndex.f].output])
          /\ LazilyCreateLazilyIndexedGradient(Engine, v).beta = 1

\* the BackpropTo invocations of the current call, in plog
BackpropEntries == {k \in 1..Len(plog) : plog[k].f # 0}

\* C29: in a backward pass BackpropTo(f, i) is invoked only after every
\* consumer entry of the output of f has been back-propagated (the gradient of
\* the output of f has been aggregated), and every consumer entry (f, i) is
\* back-propagated at most once
C29_PullOrder ==
    call.kind = "backward" =>
        /\ \A k \in BackpropEntries :
              \A c \in Range(vars[funcs[plog[k].f].output].consumers) :
                  \E z \in BackpropEntries :
                      z < k /\ plog[z].f = c[1] /\ plog[z].i = c[2]
        /\ \A k, z \in BackpropEntries :
              (plog[k].f = plog[z].f /\ plog[k].i = plog[z].i) => k = z

\* the original per-sample ops: functions whose output was implanted as a
\* lazy view of a fused output
PerSampleOps == {f \in 1..Len(funcs) : HasLazyIndex(vars[funcs[f].output])}

\* the step of Backward that runs DetermineConsumersForBackward(root)
ConsumerDiscovery == pc = "consumers" /\ err' = ""

\* the functions that step visits
VisitedForBackward ==
    {g \in 1..Len(funcs) : funcs[g].pendingInputs = -1 /\ funcs'[g].pendingInputs = 0}

\* C30: consumer discovery follows the fused graph. For an input with a lazy
\* index the consumer entry is recorded on the output of the fused op it
\* refers to, not on the input, and the fused op is visited; no per-sample op
\* whose output is a lazy view is visited, is registered as a consumer, or is
\* back-propagated through
C30_FusedGraph ==
    /\ [][ConsumerDiscovery =>
            /\ \A g \in VisitedForBackward : \A i \in 1..Len(funcs[g].inputs) :
                  LET input == funcs[g].inputs[i]
                      from == funcs[vars[input].lazyIndex.f].output
                  IN  (HasLazyIndex(vars[input]) /\ vars[from].needsGradient) =>
                          /\ <<g, i - 1>> \in Range(vars'[from].consumers)
                          /\ vars'[input].consumers = vars[input].consumers
                          /\ funcs'[vars[input].lazyIndex.f].pendingInputs = 0
            /\ HasLazyIndex(vars[call.root]) =>
                  funcs'[vars[call.root].lazyIndex.f].pendingInputs = 0
            /\ \A f \in PerSampleOps : funcs'[f] = funcs[f]]_vars_
    /\ [](call.kind = "backward" =>
            /\ \A v \in 1..Len(vars) : \A c \in Range(vars[v].consumers) :
                  c[1] \notin PerSampleOps
            /\ \A k \in BackpropEntries : plog[k].f \notin PerSampleOps)

\* consumer discovery has visited a function with an input that is a lazy
\* view, and the backward pass has back-propagated through the fused op
C30_Witness ==
    /\ call.kind = "backward" /\ err = "" /\ pc = "aggregate"
    /\ \E g \in 1..Len(funcs) : \E i \in 1..Len(funcs[g].inputs) :
          LET input == funcs[g].inputs[i]
              from == funcs[vars[input].lazyIndex.f].output
          IN  /\ HasLazyIndex(vars[input])
              /\ <<g, i - 1>> \in Range(vars[from].consumers)
              /\ \E k \in BackpropEntries : plog[k].f = vars[input].lazyIndex.f

\* how often f occurs in the batches the current pass has popped
TimesPopped(f) ==
    Cardinality({<<k, j>> \in (1..Len(blog)) \X (1..Len(funcs)) :
                    j <= Len(blog[k].ops) /\ blog[k].ops[j] = f})

\* the lists threaded through m_link: the queues, the buckets and the batch
\* popped last
LinkedLists(s, b) ==
    {s.viewOps, s.barrierOps} \cup Range(s.regularOps)
        \cup (IF b = <<>> THEN {} ELSE {b[Len(b)].ops})

\* m_link of f as the lists thread it: the function behind f, 0 at a tail
LinkOf(s, b, f) ==
    LET succ == {l[k + 1] : <<l, k>> \in
                    {<<l, k>> \in LinkedLists(s, b) \X (1..Len(funcs)) :
                         k < Len(l) /\ l[k] = f}}
    IN  IF succ = {} THEN 0 ELSE CHOOSE g \in succ : TRUE

\* C31: during a forward pass each function is scheduled at most once and is
\* on at most one queue or bucket at a time (the queues are disjoint); a
\* function of a popped batch is on no queue; and the link of a function that
\* stays queued changes only when it is the tail and a function is appended
\* behind it
C31_OneQueue ==
    /\ [](\A f \in 1..Len(funcs) : Occurrences(sched, f) + TimesPopped(f) <= 1)
    /\ [][(pc = "run" /\ pc' = "run") =>
            \A f \in OpsOf(sched) \cap OpsOf(sched') :
                \/ LinkOf(sched', <<>>, f) = LinkOf(sched, <<>>, f)
                \/ LinkOf(sched, <<>>, f) = 0]_vars_
    /\ [][(pc = "run" /\ Len(blog') = Len(blog) + 1) =>
            \A f \in Range(blog'[Len(blog')].ops) :
                LinkOf(sched', blog', f) = LinkOf(sched, <<>>, f)]_vars_

\* a batch of two ops has been popped and executed, its consumers have been
\* scheduled while it was iterated, and a bucket holds two ops
C31_Witness ==
    /\ pc = "run" /\ err = ""
    /\ blog # <<>> /\ Len(blog[Len(blog)].ops) >= 2
    /\ \E f \in OpsOf(sched) :
          \E i \in 1..Len(funcs[f].inputs) :
              \E g \in Range(blog[Len(blog)].ops) : funcs[g].output = funcs[f].inputs[i]
    /\ \E b \in 1..Len(sched.regularOps) : Len(sched.regularOps[b]) >= 2

Waiting == call.traversed \ Executed

\* the consumer entries (f, i) stored on outputs of functions that wait
StoredEntries(f) ==
    {<<v, k>> \in (1..Len(vars)) \X (1..Len(funcs) * 2) :
        /\ vars[v].owner \in Waiting
        /\ k <= Len(vars[v].consumers)
        /\ vars[v].consumers[k][1] = f}

\* C33: between the batch executions of a forward pass, m_pendingInputs of
\* every traversed and not yet executed function f equals the number of
\* consumer entries (f, i) stored on variables whose producing op has not yet
\* executed; every op of a popped batch has m_pendingInputs = 0, and
\* executing the batch fails neither in NotifyInputAvailable nor in
\* ResetPendingToIdle
C33_CounterConservation ==
    /\ [](pc = "run" =>
            \A f \in Waiting :
                funcs[f].pendingInputs = Cardinality(StoredEntries(f)))
    /\ [][(pc = "run" /\ Len(blog') = Len(blog) + 1) =>
            /\ \A f \in Range(blog'[Len(blog')].ops) : funcs[f].pendingInputs = 0
            /\ err' # "InvariantViolation"]_vars_

\* a pass is under way in which one function waits for two inputs and another
\* has been notified of one of its two inputs
C33_Witness ==
    /\ pc = "run" /\ err = "" /\ blog # <<>>
    /\ \E f \in Waiting : funcs[f].pendingInputs = 2
    /\ \E f \in Waiting :
          /\ funcs[f].pendingInputs = 1
          /\ \E i \in 1..Len(funcs[f].inputs) :
                vars[funcs[f].inputs[i]].owner \in Executed

\* the batches of the current pass that hold the op producing the root
RootBatches == {k \in 1..Len(blog) : vars[call.root].owner \in Range(blog[k].ops)}

\* C34: the op that produces the requested root is executed alone, in a batch
\* of size 1 that is computed op by op, so when the execution loop ends the
\* root has a value of its own and not only a lazy index (the assertion after
\* the loop holds)
C34_RootAlone ==
    (call.kind \in {"forward", "backward"} /\ err = "") =>
        /\ \A k \in RootBatches : Len(blog[k].ops) = 1 /\ blog[k].naive
        /\ (pc = "run" /\ SchedEmpty(sched)) => HasValue(vars[call.root])

\* the loop of a pass that fused a batch has ended, and the op of the root
\* was executed in that pass
C34_Witness ==
    /\ pc = "run" /\ SchedEmpty(sched) /\ err = ""
    /\ RootBatches # {}
    /\ \E k \in 1..Len(blog) : ~blog[k].naive

\* an earlier pass executed f: its output has a value or a lazy index
ExecutedEarlier(f) ==
    HasValue(vars[funcs[f].output]) \/ HasLazyIndex(vars[funcs[f].output])

\* C35: a forward pass never executes a function again that an earlier pass
\* executed: a variable that an earlier pass implanted as a lazy index and
\* never resolved counts as available; its producer is neither traversed nor
\* executed by the later pass
C35_NoReexecution ==
    /\ [][(pc = "idle" /\ pc' = "run") =>
            \A f \in call'.traversed : ~ExecutedEarlier(f)]_vars_
    /\ [][(pc = "run" /\ Len(blog') = Len(blog) + 1) =>
            \A f \in Range(blog'[Len(blog')].ops) : ~ExecutedEarlier(f)]_vars_

\* the root needs a gradient, every requested parameter is an ancestor of the
\* root, and every variable on a path from it to the root needs a gradient
GradientPath ==
    /\ vars[call.root].needsGradient
    /\ \A p \in DOMAIN grads :
          /\ DependsOn(call.root, p)
          /\ \A v \in 1..Len(vars) :
                (DependsOn(v, p) /\ DependsOn(call.root, v)) => vars[v].needsGradient

\* C36: after a successful forward pass for the root, on a graph in which the
\* root and every variable on a path from a requested parameter to the root
\* need gradients, backward raises neither MissingValue nor MissingGradient:
\* whenever BackpropTo(f, i) runs, the output of f has a value and a gradient
\* and no lazy index, and every input of f has a value
C36_BackwardNeverMisses ==
    (call.kind = "backward" /\ pc \in {"aggregate", "failed"} /\ GradientPath) =>
        err \notin {"MissingValue", "MissingGradient"}

\* C37: the tensor AllocateTensorInArena returns has the data type and the
\* device that were asked for, also when it is a range of an arena block that
\* an earlier request with another data type or device created
C37_AsRequested ==
    \A k \in 1..Len(alog) :
        alog[k].kind # "throw" => <<alog[k].dataType, alog[k].device>> = alog[k].asked

====
